---------------------------- MODULE Spec2Model ----------------------------
(***************************************************************************)
(* A model of the window layout and lifecycle subsystem of the glass       *)
(* desktop overlay: the window pool and crash recovery (windowManager.js,  *)
(* crashRecoveryManager.js), the geometry calculator                       *)
(* (windowLayoutManager.js), the content-fit resize protocol of the ask    *)
(* view (AskView.js) and the window controller's visibility and resize     *)
(* handlers.  The module holds one specification per subsystem; every      *)
(* specification keeps the variables of the other subsystems at their      *)
(* initial values.                                                         *)
(***************************************************************************)
EXTENDS Integers, Sequences, FiniteSets, Bags, TLC

VARIABLES
    \* ---- window pool (windowManager.js) ----
    windowPool,          \* Map name -> handle (0: no entry)
    winState,            \* handle -> "none" | "live" | "closing" | "destroyed"
    winName,             \* handle -> name the window was created under
    closedHandler,       \* handle -> TRUE when a 'closed' listener deletes the pool entry
    currentHeaderState,  \* 'apikey' | 'main'
    windowsCreated,      \* createWindows() has run
    \* ---- crash recovery (crashRecoveryManager.js) ----
    recoveryAttempts,    \* Map windowName -> attempts (absent = 0)
    recoveryTimers,      \* bag of pending setTimeout recovery callbacks
    crashHandlers,       \* bag of handleRendererCrash calls suspended at their awaits
    crashDialogs,        \* windowName -> number of showCrashDialog calls
    isShuttingDown,
    crashLog,            \* per name: history of the recovery run (bookkeeping)
    crashSignals,        \* number of render-process-gone events so far (bookkeeping)
    \* ---- geometry (windowLayoutManager.js) ----
    bounds,              \* handle -> live bounds {x, y, width, height}
    layoutRequest,       \* arguments of the last calculateFeatureWindowLayout call
    layoutResult,        \* what that call returned
    \* ---- window controller and motion engine (windowManager.js) ----
    visible,             \* handle -> win.isVisible()
    resizable,           \* handle -> win.isResizable()
    fadeTask,            \* handle -> the opacity animation in flight
    boundsTask,          \* handle -> the bounds / position animation in flight
    lastRequest,         \* ask / listen -> the latest visibility request (bookkeeping)
    motionRequests,      \* number of controller requests so far (bookkeeping)
    \* ---- ask renderer (AskView.js) ----
    isThrottled,         \* this.isThrottled: an animation-frame callback is pending
    updatePending,       \* adjustWindowHeight calls waiting for updateComplete
    firstUpdatedTimer,   \* "unset" | "pending" | "fired": the timer of firstUpdated
    contentHeight,       \* ideal height of the rendered content
    innerHeight,         \* window.innerHeight
    observerState,       \* ResizeObserver: "idle" | "queued" | "due"
    frameSignals,        \* resize requests sent to the host in the present frame
    \* ---- displays (electron screen) ----
    attached,            \* the displays screen.getAllDisplays() lists
    posRequest,          \* the last calculateNewPositionForDisplay call and its result
    displayLog,          \* the last display-removed event (bookkeeping)
    \* ---- settings / shortcut-settings popovers and click-through (windowManager.js) ----
    settingsHideTimer,   \* "null" | "pending" | "stale": the module variable; stale is
                         \* the id of a timer that was cleared
    hideTimers,          \* pending hide timers, oldest first: [win, remaining ms]
    lockedByButton,      \* handle -> win.__lockedByButton
    ignoreMouse,         \* handle -> setIgnoreMouseEvents(true, {forward: true}) in force
    controlLog,          \* timing of hide requests and hides (bookkeeping)
    \* ---- focus reassertion (windowManager.js) ----
    aggressiveFocusMode, \* the module variable set by setAggressiveFocusMode
    focusedWindow,       \* BrowserWindow.getFocusedWindow(): a handle, or NoHandle
    focusChecks,         \* pending timers armed by blur/resume/unlock-screen/activate
    focusRestoreTimer,   \* the timer of restoreFocusIfNeeded
    focusLog,            \* what the reassertion did (bookkeeping)
    \* ---- host-process errors and graceful shutdown (crashRecoveryManager.js) ----
    shutdownPc,          \* where attemptGracefulShutdown stands
    closePromises,       \* handles whose 'closed' event closeAllWindows() awaits
    closeBlocked,        \* handles of windows that never emit 'closed'
    isRecording,         \* enhancedService.videoLearningService.isRecording
    crashReports,        \* crash report type -> number of reports written
    shutdownLog,         \* the steps of the shutdown that have run, in order (bookkeeping)
    \* ---- persisted application state (appStateManager.js) ----
    stateFile,           \* content of app-state.json
    backupFile,          \* content of app-state-backup.json
    saveCalls,           \* k -> where the k-th saveState() invocation stands
    stateLog,            \* history of the saves and the last load (bookkeeping)
    \* ---- completion callbacks of the motion engine ----
    callbackLog,         \* which completion callbacks were superseded and invoked (bookkeeping)
    \* ---- show / hide of all windows (windowManager.js) ----
    lastVisibleWindows,  \* the module variable: names of the windows visible at the last hide
    toggleLog,           \* what the last hide found and what a show made of it (bookkeeping)
    \* ---- mind-map graph (mindMapService.js) ----
    nodes,               \* this.nodes: the nodes as [key, id]
    nodeIdCounter,       \* this.nodeIdCounter
    mindLog,             \* the nodes created so far and a clash of ids (bookkeeping)
    \* ---- video learning (videoLearningService.js, screenCaptureService.js) ----
    currentSession,      \* this.currentSession: 0 (null) or the number of the call that set it
    isCapturing,         \* screenCaptureService.isCapturing
    captureIntervals,    \* capture intervals running (setInterval without clearInterval)
    videoCalls           \* k -> where the k-th start/stop call stands

poolVars   == <<windowPool, winState, winName, closedHandler, currentHeaderState, windowsCreated>>
crashVars  == <<recoveryAttempts, recoveryTimers, crashHandlers, crashDialogs, isShuttingDown,
               crashLog, crashSignals>>
layoutVars == <<bounds, layoutRequest, layoutResult>>
motionVars == <<visible, resizable, fadeTask, boundsTask, lastRequest, motionRequests>>
displayVars == <<attached, posRequest, displayLog>>
controlVars == <<settingsHideTimer, hideTimers, lockedByButton, ignoreMouse, controlLog>>
focusVars  == <<aggressiveFocusMode, focusedWindow, focusChecks, focusRestoreTimer, focusLog>>
shutdownVars == <<shutdownPc, closePromises, closeBlocked, isRecording, crashReports,
                  shutdownLog>>
stateVars  == <<stateFile, backupFile, saveCalls, stateLog>>
engineVars == <<callbackLog>>
toggleVars == <<lastVisibleWindows, toggleLog>>
mindVars   == <<nodes, nodeIdCounter, mindLog>>
videoVars  == <<currentSession, isCapturing, captureIntervals, videoCalls>>
serviceVars == <<toggleVars, mindVars, videoVars>>
restExt    == <<displayVars, controlVars, focusVars, shutdownVars, stateVars, serviceVars>>
extVars    == <<restExt, engineVars>>
askVars    == <<isThrottled, updatePending, firstUpdatedTimer, contentHeight, innerHeight,
               observerState, frameSignals>>

-----------------------------------------------------------------------------
(***************************************************************************)
(* Names and handles                                                       *)
(***************************************************************************)
FeatureWindows == {"listen", "ask", "settings", "shortcut-settings"}
WindowNames    == {"header"} \cup FeatureWindows
LayoutNames    == {"ask", "listen"}

\* Number of BrowserWindow objects one run of the model may construct.
MaxHandles == 7
Handles    == 1..MaxHandles
NoHandle   == 0

isDestroyed(h) == winState[h] = "destroyed"
\* windowPool.get(name) yields a window that is not destroyed
poolLive(name) == windowPool[name] # NoHandle /\ ~isDestroyed(windowPool[name])

-----------------------------------------------------------------------------
(***************************************************************************)
(* Geometry Calculator (windowLayoutManager.js).  Halves occur (width / 2),*)
(* so intermediate values are kept doubled and Math.round is applied to a  *)
(* doubled value.                                                          *)
(***************************************************************************)
NoBounds == [x |-> 0, y |-> 0, width |-> 0, height |-> 0]

\* Math.round(v2 / 2): rounds to the nearest integer, halves towards +infinity.
MathRound2(v2) == (v2 + 1) \div 2

\* ORIGINAL_WINDOW_DIMENSIONS; an absent key is 0 (the code tests truthiness).
ORIGINAL_WINDOW_DIMENSIONS ==
    [n \in WindowNames |->
        CASE n = "ask"               -> [width |-> 600, minHeight |-> 100, maxHeight |-> 0,   height |-> 0]
          [] n = "listen"            -> [width |-> 400, minHeight |-> 100, maxHeight |-> 0,   height |-> 0]
          [] n = "settings"          -> [width |-> 240, minHeight |-> 0,   maxHeight |-> 400, height |-> 0]
          [] n = "shortcut-settings" -> [width |-> 353, minHeight |-> 0,   maxHeight |-> 0,   height |-> 720]
          [] OTHER                   -> [width |-> 0,   minHeight |-> 0,   maxHeight |-> 0,   height |-> 0]]

\* The displays of the machine: work areas of a primary display and of a
\* secondary display to its left.
Displays ==
    [primary   |-> [x |-> 0,     y |-> 0,  width |-> 1920, height |-> 1080],
     secondary |-> [x |-> -1280, y |-> 25, width |-> 1280, height |-> 1020]]

\* screen.getDisplayNearestPoint for a point given by its doubled x
getDisplayNearestPoint(centerX2) ==
    IF centerX2 < 0 /\ "secondary" \in attached THEN Displays.secondary ELSE Displays.primary

\* getCurrentDisplay(window): the primary display for a missing or destroyed window
getCurrentDisplay(h) ==
    IF h = NoHandle \/ isDestroyed(h) THEN Displays.primary
    ELSE getDisplayNearestPoint(2 * bounds[h].x + bounds[h].width)

\* A plausible slip: the current height is passed on without its constraints.
constrainHeightUnclamped(currentHeight, original) == currentHeight

constrainHeight(currentHeight, original) ==
    IF original.minHeight # 0 /\ currentHeight < original.minHeight THEN original.minHeight
    ELSE IF original.maxHeight # 0 /\ currentHeight > original.maxHeight THEN original.maxHeight
    ELSE IF original.height # 0 THEN original.height
    ELSE currentHeight

\* A plausible slip: the live width is used instead of the configured one.
getWindowDimensionsLiveWidth(windowName) ==
    LET current == bounds[windowPool[windowName]] IN
    [width  |-> current.width,
     height |-> constrainHeight(current.height, ORIGINAL_WINDOW_DIMENSIONS[windowName]),
     x |-> current.x, y |-> current.y]

\* getWindowDimensions(windowName), for a window that is in the pool and alive
getWindowDimensions(windowName) ==
    LET original == ORIGINAL_WINDOW_DIMENSIONS[windowName]
        current  == bounds[windowPool[windowName]]
    IN  [width  |-> IF original.width # 0 THEN original.width ELSE current.width,
         height |-> constrainHeight(current.height, original),
         x |-> current.x, y |-> current.y]

\* A plausible slip: equal space above and below is placed above.
determineLayoutStrategyTieAbove(headerBounds, screenHeight, workAreaY) ==
    LET spaceAbove == headerBounds.y - workAreaY
        spaceBelow == screenHeight - (headerBounds.y - workAreaY + headerBounds.height)
    IN  IF spaceAbove >= spaceBelow THEN "above" ELSE "below"

determineLayoutStrategy(headerBounds, screenHeight, workAreaY) ==
    LET spaceAbove == headerBounds.y - workAreaY
        spaceBelow == screenHeight - (headerBounds.y - workAreaY + headerBounds.height)
    IN  IF spaceAbove > spaceBelow THEN "above" ELSE "below"

PAD == 8

\* A plausible slip: the padding between the two windows is left out.
listenXRel2NoPad(askXRel2, listenWidth) == askXRel2 - 2 * listenWidth

\* x of listen relative to the work area, doubled, when both windows are placed
listenXRel2Both(askXRel2, listenWidth) == askXRel2 - 2 * listenWidth - 2 * PAD

\* The windows the call places: requested visible, in the pool, not destroyed
placedWindows(visibility) == {n \in visibility : poolLive(n)}

NoLayout == [n \in LayoutNames |-> NoBounds]

(***************************************************************************)
(* calculateFeatureWindowLayout(visibility, headerBoundsOverride).         *)
(* visibility is the set of names whose flag is true; override is NoBounds *)
(* when the argument is left out.  The value is [threw, placed, at]:       *)
(* threw when header.getBounds() is called on a destroyed window (Electron *)
(* throws "Object has been destroyed"), placed the keys of the result, at  *)
(* their bounds.                                                           *)
(***************************************************************************)
calculateFeatureWindowLayout(visibility, override) ==
    LET header    == windowPool["header"]
        hasOver   == override # NoBounds
        empty     == [threw |-> FALSE, placed |-> {}, at |-> NoLayout]
    IN
    IF ~hasOver /\ header # NoHandle /\ isDestroyed(header)
        THEN [threw |-> TRUE, placed |-> {}, at |-> NoLayout]
    ELSE IF ~hasOver /\ header = NoHandle THEN empty
    ELSE
    LET headerBounds == IF hasOver THEN override ELSE bounds[header]
        display == IF hasOver
                     THEN getDisplayNearestPoint(2 * headerBounds.x + headerBounds.width)
                     ELSE getCurrentDisplay(header)
        placed  == placedWindows(visibility)
        askVis    == "ask" \in placed
        listenVis == "listen" \in placed
    IN
    IF ~askVis /\ ~listenVis THEN empty
    ELSE
    LET headerCenterXRel2 == 2 * (headerBounds.x - display.x) + headerBounds.width
        strategy == determineLayoutStrategy(headerBounds, display.height, display.y)
        dims == [n \in LayoutNames |->
                    IF n \in placed THEN getWindowDimensions(n) ELSE NoBounds]
        askXRel2    == headerCenterXRel2 - dims["ask"].width
        listenXRel2 == IF askVis /\ listenVis
                         THEN listenXRel2Both(askXRel2, dims["listen"].width)
                         ELSE headerCenterXRel2 - dims["listen"].width
        xRel2(n) == IF n = "ask" THEN askXRel2 ELSE listenXRel2
        yOf(n)   == IF strategy = "above"
                      THEN (headerBounds.y - PAD) - dims[n].height
                      ELSE headerBounds.y + headerBounds.height + PAD
    IN  [threw  |-> FALSE,
         placed |-> placed,
         at     |-> [n \in LayoutNames |->
                        IF n \in placed
                          THEN [x      |-> MathRound2(xRel2(n) + 2 * display.x),
                                y      |-> yOf(n),
                                width  |-> dims[n].width,
                                height |-> dims[n].height]
                          ELSE NoBounds]]

calculateStepMovePosition(h, direction) ==
    LET stepSize == 80
        cur == bounds[h]
    IN  CASE direction = "left"  -> [x |-> cur.x - stepSize, y |-> cur.y]
          [] direction = "right" -> [x |-> cur.x + stepSize, y |-> cur.y]
          [] direction = "up"    -> [x |-> cur.x, y |-> cur.y - stepSize]
          [] direction = "down"  -> [x |-> cur.x, y |-> cur.y + stepSize]

calculateWindowHeightAdjustment(h, targetHeight) ==
    [x |-> bounds[h].x, y |-> bounds[h].y, width |-> bounds[h].width, height |-> targetHeight]

-----------------------------------------------------------------------------
(***************************************************************************)
(* Values the other subsystems keep while one subsystem is explored.       *)
(***************************************************************************)
CrashNames == WindowNames \cup {"unknown"}

\* Bookkeeping of one window name's recovery history:
\*   failedRun     consecutive failed recreation attempts (0 again after a success)
\*   successAfter  failed attempts that preceded the latest success (-1: no success yet)
\*   fresh         the latest recovery event was a success and no crash signal was handled since
\*   restart       counter value set by the first crash signal handled after a success (0: none yet)
\*   restartDelay  the delay that crash signal scheduled
NoLog == [failedRun |-> 0, successAfter |-> -1, fresh |-> FALSE, restart |-> 0, restartDelay |-> 0]

PoolIdle ==
    /\ windowPool = [n \in WindowNames |-> NoHandle]
    /\ winState = [h \in Handles |-> "none"]
    /\ winName = [h \in Handles |-> "none"]
    /\ closedHandler = [h \in Handles |-> FALSE]
    /\ currentHeaderState = "apikey"
    /\ windowsCreated = FALSE

CrashIdle ==
    /\ recoveryAttempts = [n \in CrashNames |-> 0]
    /\ recoveryTimers = EmptyBag
    /\ crashHandlers = EmptyBag
    /\ crashDialogs = [n \in CrashNames |-> 0]
    /\ isShuttingDown = FALSE
    /\ crashLog = [n \in CrashNames |-> NoLog]
    /\ crashSignals = 0

NoFade == [active |-> FALSE, to |-> 0, onComplete |-> "none"]
\* id: the number of the request whose completion callback the animation carries
\* (0: none)
NoMove == [active |-> FALSE, target |-> NoBounds, onComplete |-> "none", id |-> 0]

\* callbackLog: first: callbacks of animations that were in flight when another
\* animation was issued on their window; second: callbacks of animations issued on a
\* window while an animation of it was in flight; fired: the callbacks invoked, in
\* order
NoSize == [width |-> 0, height |-> 0]
NoCallbackLog == [first |-> {}, second |-> {}, fired |-> <<>>,
                  asked |-> NoSize, dropped |-> FALSE]

EngineIdle == callbackLog = NoCallbackLog

MotionIdle ==
    /\ visible = [h \in Handles |-> FALSE]
    /\ resizable = [h \in Handles |-> FALSE]
    /\ fadeTask = [h \in Handles |-> NoFade]
    /\ boundsTask = [h \in Handles |-> NoMove]
    /\ lastRequest = [n \in LayoutNames |-> "none"]
    /\ motionRequests = 0

AskIdle ==
    /\ isThrottled = FALSE
    /\ updatePending = 0
    /\ firstUpdatedTimer = "unset"
    /\ contentHeight = 0
    /\ innerHeight = 0
    /\ observerState = "idle"
    /\ frameSignals = <<>>

NoPosition == [x |-> 0, y |-> 0]
NoPosRequest == [made |-> FALSE, window |-> NoBounds, source |-> "none", target |-> "none",
                 isNull |-> FALSE, result |-> NoPosition]
NoDisplayLog == [fresh |-> FALSE, wasOnRemoved |-> FALSE, stale |-> FALSE, before |-> NoBounds]

DisplayIdle ==
    /\ attached = {"primary", "secondary"}
    /\ posRequest = NoPosRequest
    /\ displayLog = NoDisplayLog

\* Bookkeeping for the settings popover:
\*   sinceRequest     ms since the latest hide request for settings (counted up to 300)
\*   outstanding      a hide request was made and no show or destroy followed it
\*   hides            runs of the timer's hide since the present run of hide requests began
\*   burst            hide requests of the present run (each while the previous one's
\*                    timer was pending), counted up to 2
\*   lockedAtRequest  __lockedByButton was set when the latest hide request arrived
\*   hideDelay        per popover: ms between the latest hide request and the hide (-1: none)
NoControlLog == [sinceRequest |-> 300, outstanding |-> FALSE, hides |-> 0, burst |-> 0,
                 lockedAtRequest |-> FALSE,
                 hideDelay |-> [n \in {"settings", "shortcut-settings"} |-> -1]]

ControlIdle ==
    /\ settingsHideTimer = "null"
    /\ hideTimers = <<>>
    /\ lockedByButton = [h \in Handles |-> FALSE]
    /\ ignoreMouse = [h \in Handles |-> FALSE]
    /\ controlLog = NoControlLog

\* focusRestoreTimer: pending, and (bookkeeping) off: aggressive focus mode was off
\* when the event that armed it arrived and ever since; cause: that event
NoFocusTimer == [pending |-> FALSE, off |-> FALSE, cause |-> "none"]
\* focusLog: reasserted: the header was put on top and focused by restoreFocusIfNeeded;
\* contested: that happened for an event that arrived with the mode off, the mode
\* being off ever since; cause: the event; threw: a listener of createWindows()
\* called a method of the destroyed original header (TypeError: Object has been
\* destroyed)
\* destroyed); stale: a listener operated on a header that is not the one registered
\* in the pool
NoFocusLog == [reasserted |-> FALSE, contested |-> FALSE, cause |-> "none",
               threw |-> FALSE, stale |-> FALSE]

FocusIdle ==
    /\ aggressiveFocusMode = TRUE
    /\ focusedWindow = NoHandle
    /\ focusChecks = {}
    /\ focusRestoreTimer = NoFocusTimer
    /\ focusLog = NoFocusLog

ReportTypes == {"uncaught-exception", "unhandled-rejection"}

\* shutdownLog: steps: the steps of attemptGracefulShutdown that have begun, in order;
\* errors: the uncaught exceptions and unhandled rejections that have occurred
NoShutdownLog == [steps |-> <<>>, errors |-> [t \in ReportTypes |-> 0]]

ShutdownIdle ==
    /\ shutdownPc = "idle"
    /\ closePromises = {}
    /\ closeBlocked = {}
    /\ isRecording = FALSE
    /\ crashReports = [t \in ReportTypes |-> 0]
    /\ shutdownLog = NoShutdownLog

\* Bound on the saveState() invocations of one run
MaxSaves == 3

\* A file: missing, or holding the JSON of save v, whole or cut short
NoFile == [exists |-> FALSE, complete |-> FALSE, v |-> 0]
\* stateLog: firstSaved: a write of the primary file has succeeded; failed: a write of
\* the primary file failed or was cut short; overlapped: two invocations were in
\* flight at once; loadedFrom: where the last loadState() took the state from;
\* restore: the saveState() invocation made by that loadState(), 0 for none
NoStateLog == [firstSaved |-> FALSE, failed |-> FALSE, overlapped |-> FALSE,
               loadedFrom |-> "none", restore |-> 0]

StateIdle ==
    /\ stateFile = NoFile
    /\ backupFile = NoFile
    /\ saveCalls = [k \in 1..MaxSaves |-> "idle"]
    /\ stateLog = NoStateLog

\* Bound on the start/stop calls of the video learning service in one run
MaxVideoCalls == 3

\* toggleLog: phase: "none", "hidden" after a hide of all windows, "shown" after the
\* show that followed it; atHide: the names of the windows that were visible when the
\* hide happened; request: the targetVisibility of the latest request; tick: flips
\* with every request
NoToggleLog == [phase |-> "none", atHide |-> {}, request |-> "none", tick |-> FALSE]
ToggleIdle ==
    /\ lastVisibleWindows = {"header"}
    /\ toggleLog = NoToggleLog

\* mindLog: clash: a node was created with the id of a node of the graph;
\* emptyImport: an exported graph without nodes was imported
NoMindLog == [clash |-> FALSE, emptyImport |-> FALSE]
MindIdle ==
    /\ nodes = {}
    /\ nodeIdCounter = 0
    /\ mindLog = NoMindLog

VideoIdle ==
    /\ currentSession = 0
    /\ isCapturing = FALSE
    /\ captureIntervals = 0
    /\ videoCalls = [k \in 1..MaxVideoCalls |-> "idle"]

ServiceIdle == ToggleIdle /\ MindIdle /\ VideoIdle

ExtIdle == DisplayIdle /\ ControlIdle /\ FocusIdle /\ ShutdownIdle /\ StateIdle /\ EngineIdle
           /\ ServiceIdle

NoRequest == [visibility |-> {}, override |-> NoBounds, made |-> FALSE]
NoResult  == [threw |-> FALSE, placed |-> {}, at |-> NoLayout]

LayoutIdle ==
    /\ bounds = [h \in Handles |-> NoBounds]
    /\ layoutRequest = NoRequest
    /\ layoutResult = NoResult

-----------------------------------------------------------------------------
(***************************************************************************)
(* SpecLayout: the geometry calculator applied to the pool.  The pool      *)
(* holds the header (handle 1), ask (2) and listen (3), each missing,      *)
(* destroyed or alive; the header's bounds and the windows' heights are    *)
(* drawn from small sets.                                                  *)
(***************************************************************************)
\* Header bounds: the start-up place (odd width, room below), the recreated
\* header low on the screen (even width, room above), the recreated header at
\* equal room above and below, and a header on the secondary display.
HeaderBoundsSet ==
    { [x |-> 784,   y |-> 21,  width |-> 353, height |-> 47],
      [x |-> 660,   y |-> 900, width |-> 600, height |-> 60],
      [x |-> 660,   y |-> 510, width |-> 600, height |-> 60],
      [x |-> -1100, y |-> 700, width |-> 353, height |-> 47] }

\* Heights a feature window is given (content-fit requests, user resizes):
\* 50 * k for k in 1..MaxHeightSteps, scaled to cover values under and over minHeight.
MaxHeightSteps == 2
HeightSet == {50 + 350 * (k - 1) : k \in 1..MaxHeightSteps}

\* Live widths a window can be left with: the nominal one and mutated ones.
MaxWidthDrift == 1
LiveWidths(n) == {ORIGINAL_WINDOW_DIMENSIONS[n].width + 40 * k : k \in 0..MaxWidthDrift}

LayoutHandle == [n \in WindowNames |->
    CASE n = "header" -> 1 [] n = "ask" -> 2 [] n = "listen" -> 3 [] OTHER -> NoHandle]
\* Directions of the window:moveStep requests explored
StepDirections == {"left", "down"}

InitLayout ==
    /\ \E present \in SUBSET {"header", "ask", "listen"} :
       \E dead \in SUBSET present :
         /\ windowPool = [n \in WindowNames |-> IF n \in present THEN LayoutHandle[n] ELSE NoHandle]
         /\ winState = [h \in Handles |->
               IF \E n \in present : LayoutHandle[n] = h
                 THEN (IF \E n \in dead : LayoutHandle[n] = h THEN "destroyed" ELSE "live")
                 ELSE "none"]
         /\ winName = [h \in Handles |->
               IF \E n \in present : LayoutHandle[n] = h
                 THEN (CHOOSE n \in present : LayoutHandle[n] = h) ELSE "none"]
         /\ \E hb \in HeaderBoundsSet, ah \in HeightSet, lh \in HeightSet :
              bounds = [h \in Handles |->
                 IF winState[h] = "none" THEN NoBounds
                 ELSE CASE h = 1 -> hb
                        [] h = 2 -> [x |-> 0, y |-> 0, width |-> 600, height |-> ah]
                        [] h = 3 -> [x |-> 0, y |-> 0, width |-> 400, height |-> lh]
                        [] OTHER -> NoBounds]
    /\ closedHandler = [h \in Handles |-> FALSE]
    /\ currentHeaderState = "main"
    /\ windowsCreated = TRUE
    /\ layoutRequest = NoRequest
    /\ layoutResult = NoResult
    /\ CrashIdle /\ MotionIdle /\ AskIdle /\ ExtIdle

\* One call of calculateFeatureWindowLayout(visibility) as updateChildWindowLayouts and
\* handleWindowVisibilityRequest make it, its result kept.
CallLayout(vis) ==
    /\ layoutRequest' = [visibility |-> vis, override |-> NoBounds, made |-> TRUE]
    /\ layoutResult' = calculateFeatureWindowLayout(vis, NoBounds)
    /\ UNCHANGED <<bounds, poolVars, crashVars, motionVars, askVars, extVars>>

\* The call window:moveStep makes: the header's future bounds are passed as the override.
CallLayoutOverride(vis, direction) ==
    /\ poolLive("header")
    /\ LET header == windowPool["header"]
           pos == calculateStepMovePosition(header, direction)
           futureHeaderBounds == [bounds[header] EXCEPT !.x = pos.x, !.y = pos.y]
       IN  /\ layoutRequest' = [visibility |-> vis, override |-> futureHeaderBounds, made |-> TRUE]
           /\ layoutResult' = calculateFeatureWindowLayout(vis, futureHeaderBounds)
    /\ UNCHANGED <<bounds, poolVars, crashVars, motionVars, askVars, extVars>>

\* movementManager.animateLayout(layout, false): every placed window that is still alive
\* is set to its computed bounds.
animateLayoutInstant(layout) ==
    [h \in Handles |->
        IF \E n \in layout.placed : windowPool[n] = h /\ ~isDestroyed(h)
          THEN layout.at[CHOOSE n \in layout.placed : windowPool[n] = h]
          ELSE bounds[h]]

ApplyLayout ==
    /\ layoutRequest.made /\ ~layoutResult.threw
    /\ layoutRequest.override = NoBounds
    /\ bounds' = animateLayoutInstant(layoutResult)
    /\ UNCHANGED <<layoutRequest, layoutResult, poolVars, crashVars, motionVars, askVars, extVars>>

\* The end state of a window:adjustWindowHeight request
AdjustHeight(n, targetHeight) ==
    /\ poolLive(n)
    /\ bounds' = [bounds EXCEPT ![windowPool[n]] =
                     calculateWindowHeightAdjustment(windowPool[n], targetHeight)]
    /\ UNCHANGED <<layoutRequest, layoutResult, poolVars, crashVars, motionVars, askVars, extVars>>

\* The live width of a window is changed from outside the calculator.
MutateLiveWidth(n, w) ==
    /\ poolLive(n)
    /\ bounds[windowPool[n]].width # w
    /\ bounds' = [bounds EXCEPT ![windowPool[n]].width = w]
    /\ UNCHANGED <<layoutRequest, layoutResult, poolVars, crashVars, motionVars, askVars, extVars>>

NextLayout ==
    \/ \E vis \in SUBSET LayoutNames : CallLayout(vis)
    \/ \E vis \in SUBSET LayoutNames, d \in StepDirections : CallLayoutOverride(vis, d)
    \/ ApplyLayout
    \/ \E n \in LayoutNames, t \in HeightSet : AdjustHeight(n, t)
    \/ \E n \in LayoutNames : \E w \in LiveWidths(n) : MutateLiveWidth(n, w)

vars == <<poolVars, crashVars, layoutVars, motionVars, askVars, extVars>>

SpecLayout == InitLayout /\ [][NextLayout]_vars

-----------------------------------------------------------------------------
(***************************************************************************)
(* Properties of the geometry calculator, checked under SpecLayout.        *)
(***************************************************************************)
\* The last call's result is the one the calculator gives in the present state.
ResultIsCurrent ==
    /\ layoutRequest.made
    /\ layoutResult = calculateFeatureWindowLayout(layoutRequest.visibility, layoutRequest.override)

\* C8: every window a layout result places has its nominal configured width
\* (ask 600, listen 400), whatever the live width of the window is, after any
\* sequence of layout passes, height adjustments and live-width mutations.
C8_NominalWidth ==
    \A n \in layoutResult.placed :
        layoutResult.at[n].width = (IF n = "ask" THEN 600 ELSE 400)

\* C8 witness: a layout computed while ask's live width is mutated and that places ask,
\* after an earlier layout pass had already been applied.
C8_Witness ==
    /\ ResultIsCurrent
    /\ {"ask", "listen"} \subseteq layoutResult.placed
    /\ bounds[windowPool["ask"]].width = 640
    /\ bounds[windowPool["listen"]].x # 0

Overlap(a, b) ==
    /\ a.x < b.x + b.width /\ b.x < a.x + a.width
    /\ a.y < b.y + b.height /\ b.y < a.y + a.height

\* C9: when a layout result places both ask and listen, the two rectangles do not
\* overlap and listen's right edge is exactly 8 px left of ask's left edge.
C9_GapExactlyPad ==
    {"ask", "listen"} \subseteq layoutResult.placed =>
        /\ ~Overlap(layoutResult.at["ask"], layoutResult.at["listen"])
        /\ layoutResult.at["ask"].x
             - (layoutResult.at["listen"].x + layoutResult.at["listen"].width) = 8

\* C9 witness: both placed for a header of odd width (a half-pixel center) on the
\* secondary display, where the coordinates are negative.
C9_Witness ==
    /\ ResultIsCurrent
    /\ layoutRequest.override = NoBounds
    /\ {"ask", "listen"} \subseteq layoutResult.placed
    /\ bounds[windowPool["header"]].width % 2 = 1
    /\ layoutResult.at["listen"].x < 0

\* The windows a request asks for that are in the pool and not destroyed
RequestedLive == {n \in layoutRequest.visibility : poolLive(n)}

\* C10: every call of calculateFeatureWindowLayout returns (it does not throw) and
\* returns bounds for exactly the windows requested visible that exist and are not
\* destroyed; with neither requested the result is empty.
C10_ExactlyRequested ==
    layoutRequest.made => (~layoutResult.threw /\ layoutResult.placed = RequestedLive)

HeaderBoundsReadable ==
    layoutRequest.override # NoBounds \/ poolLive("header")

\* What does hold: with the header's bounds available (an override, or a live header
\* in the pool) the result holds bounds for exactly the windows requested visible that
\* exist and are not destroyed; with no header in the pool and no override the
\* result is empty.
Layout_ExactWhenHeaderReadable ==
    layoutRequest.made =>
        /\ HeaderBoundsReadable =>
              (~layoutResult.threw /\ layoutResult.placed = RequestedLive)
        /\ (layoutRequest.override = NoBounds /\ windowPool["header"] = NoHandle) =>
              (~layoutResult.threw /\ layoutResult.placed = {})

\* The header bounds the last call worked from, and the work area of its display
UsedHeaderBounds ==
    IF layoutRequest.override # NoBounds THEN layoutRequest.override
    ELSE bounds[windowPool["header"]]

UsedWorkArea ==
    getDisplayNearestPoint(2 * UsedHeaderBounds.x + UsedHeaderBounds.width)

SpaceAbove == UsedHeaderBounds.y - UsedWorkArea.y
SpaceBelow == (UsedWorkArea.y + UsedWorkArea.height)
                 - (UsedHeaderBounds.y + UsedHeaderBounds.height)

\* C11: the windows are placed above the header iff the space above it inside the
\* work area of its display is strictly greater than the space below; equal space
\* places them below.  Below: every placed window has y = header bottom + 8; above:
\* every placed window's bottom edge is at header top - 8.
C11_StrategyAndTie ==
    \A n \in layoutResult.placed :
        IF SpaceAbove > SpaceBelow
          THEN layoutResult.at[n].y + layoutResult.at[n].height = UsedHeaderBounds.y - 8
          ELSE layoutResult.at[n].y = UsedHeaderBounds.y + UsedHeaderBounds.height + 8

\* C11 witness: both windows placed for a header with equal space above and below
C11_Witness ==
    /\ ResultIsCurrent
    /\ layoutResult.placed = {"ask", "listen"}
    /\ SpaceAbove = SpaceBelow
    /\ layoutResult.at["ask"].y = UsedHeaderBounds.y + UsedHeaderBounds.height + 8

\* The strategy "above" does occur.
Layout_AboveOccurs ==
    /\ ResultIsCurrent /\ layoutResult.placed # {} /\ SpaceAbove > SpaceBelow

\* C12: with only ask requested visible, the header's bounds readable and at least as
\* much space below the header as above, the ask bounds returned are
\* x = headerCenterX - 600 / 2 (rounded to a whole pixel), y = header bottom + 8,
\* width = 600 and height = ask's current height raised to its minimum of 100
\* (ask has no maximum).
C12_AskOnlyBelow ==
    (/\ ResultIsCurrent
     /\ layoutRequest.visibility = {"ask"}
     /\ poolLive("ask")
     /\ HeaderBoundsReadable
     /\ SpaceBelow >= SpaceAbove)
    => LET ask == layoutResult.at["ask"]
           current == bounds[windowPool["ask"]].height
       IN  /\ ~layoutResult.threw /\ layoutResult.placed = {"ask"}
           /\ 2 * ask.x - (2 * UsedHeaderBounds.x + UsedHeaderBounds.width - 600) \in {0, 1}
           /\ ask.y = UsedHeaderBounds.y + UsedHeaderBounds.height + 8
           /\ ask.width = 600
           /\ ask.height = (IF current < 100 THEN 100 ELSE current)

\* C12 witness: the header centred in the primary work area (centre 960, 540), ask
\* 50 high: the result is {x: 660, y: 578, width: 600, height: 100}
C12_Witness ==
    /\ ResultIsCurrent
    /\ layoutRequest.visibility = {"ask"} /\ layoutRequest.override = NoBounds
    /\ poolLive("header") /\ poolLive("ask")
    /\ bounds[windowPool["header"]] = [x |-> 660, y |-> 510, width |-> 600, height |-> 60]
    /\ bounds[windowPool["ask"]].height = 50
    /\ layoutResult.at["ask"] = [x |-> 660, y |-> 578, width |-> 600, height |-> 100]

Abs(v) == IF v < 0 THEN -v ELSE v

\* C13: when both ask and listen are placed, the span from listen's left edge to
\* ask's right edge is centred on the header's horizontal centre: twice its midpoint
\* differs from twice the header's centre by no more than the rounding of the two
\* x values (2 px).
C13_SetCentred ==
    {"ask", "listen"} \subseteq layoutResult.placed =>
        Abs((layoutResult.at["listen"].x + layoutResult.at["ask"].x + layoutResult.at["ask"].width)
              - (2 * UsedHeaderBounds.x + UsedHeaderBounds.width)) <= 2

\* What does hold: ask alone is centred on the header's centre, and the span's midpoint
\* lies (400 + 8) / 2 = 204 px left of it.
Layout_AskCentredSetOffset ==
    {"ask", "listen"} \subseteq layoutResult.placed =>
        /\ Abs((2 * layoutResult.at["ask"].x + layoutResult.at["ask"].width)
                 - (2 * UsedHeaderBounds.x + UsedHeaderBounds.width)) <= 1
        /\ Abs((layoutResult.at["listen"].x + layoutResult.at["ask"].x + layoutResult.at["ask"].width)
                 - (2 * UsedHeaderBounds.x + UsedHeaderBounds.width) + 408) <= 2

-----------------------------------------------------------------------------
(***************************************************************************)
(* Window pool lifecycle (windowManager.js) and crash recovery             *)
(* (crashRecoveryManager.js).  Pool operations are written on a record     *)
(* ps = [pool, st, nm, ch] (windowPool, winState, winName, closedHandler)  *)
(* so that one handler can chain several of them.                          *)
(***************************************************************************)
PoolState == [pool |-> windowPool, st |-> winState, nm |-> winName, ch |-> closedHandler]

FreeHandles(ps) == {h \in Handles : ps.st[h] = "none"}
FreeHandle(ps)  == CHOOSE h \in FreeHandles(ps) : \A g \in FreeHandles(ps) : h <= g

\* clearTimeout(settingsHideTimer): the timer the variable names is the newest one
clearSettingsHideTimer(timers, timerVar) ==
    IF timerVar = "pending" THEN SubSeq(timers, 1, Len(timers) - 1) ELSE timers

\* A destroyed window that no pool entry, no pending animation callback and no pending
\* timer refers to is forgotten (its handle can name a later window): the program
\* cannot reach it.
Forget(ps) ==
    LET gone(h) == /\ ps.st[h] = "destroyed" /\ \A n \in WindowNames : ps.pool[n] # h
                   /\ ~fadeTask[h].active /\ ~boundsTask[h].active
                   /\ \A i \in 1..Len(hideTimers) : hideTimers[i].win # h
    IN  [pool |-> ps.pool,
         st |-> [h \in Handles |-> IF gone(h) THEN "none" ELSE ps.st[h]],
         nm |-> [h \in Handles |-> IF gone(h) THEN "none" ELSE ps.nm[h]],
         ch |-> [h \in Handles |-> IF gone(h) THEN FALSE ELSE ps.ch[h]]]

\* new BrowserWindow(...); windowPool.set(name, win); handler: a 'closed' listener
\* that deletes the pool entry of that name is attached
newWindow(ps, name, handler) ==
    LET h == FreeHandle(ps) IN
    [pool |-> [ps.pool EXCEPT ![name] = h],
     st   |-> [ps.st EXCEPT ![h] = "live"],
     nm   |-> [ps.nm EXCEPT ![h] = name],
     ch   |-> [ps.ch EXCEPT ![h] = handler]]

\* createFeatureWindow(name): nothing when the pool has the key; no 'closed' listener
createFeatureWindow(ps, name) ==
    IF ps.pool[name] # NoHandle THEN ps ELSE newWindow(ps, name, FALSE)

\* createFeatureWindows(header): listen, ask, settings, shortcut-settings in this order
createFeatureWindows(ps) ==
    createFeatureWindow(
        createFeatureWindow(
            createFeatureWindow(
                createFeatureWindow(ps, "listen"), "ask"), "settings"), "shortcut-settings")

\* The 'closed' event of window h: the window is destroyed and, when the listener
\* of setupHeaderWindowEvents / setupFeatureWindowEvents is attached, the pool entry of
\* the window's name is deleted, whichever window it holds by now.
emitClosed(ps, h) ==
    [ps EXCEPT !.st[h] = "destroyed",
               !.pool = IF ps.ch[h] THEN [ps.pool EXCEPT ![ps.nm[h]] = NoHandle] ELSE ps.pool]

\* One iteration of destroyFeatureWindows: win.destroy() when alive ('closed' is
\* emitted at once), then windowPool.delete(name)
destroyFeatureWindow(ps, name) ==
    LET h == ps.pool[name]
        closed == IF h # NoHandle /\ ps.st[h] # "destroyed" THEN emitClosed(ps, h) ELSE ps
    IN  [closed EXCEPT !.pool[name] = NoHandle]

destroyFeatureWindows(ps) ==
    destroyFeatureWindow(
        destroyFeatureWindow(
            destroyFeatureWindow(
                destroyFeatureWindow(ps, "listen"), "ask"), "settings"), "shortcut-settings")

\* The first half of recreateWindow: oldWindow.close() when alive, then
\* windowPool.delete(windowName).  syncClose: 'closed' is emitted inside close();
\* otherwise the window stays alive, closing, until its 'closed' event.
removeOldWindow(ps, windowName, syncClose) ==
    IF windowName \notin WindowNames THEN ps
    ELSE LET h == ps.pool[windowName]
             closed == IF h # NoHandle /\ ps.st[h] # "destroyed"
                         THEN (IF syncClose THEN emitClosed(ps, h)
                                            ELSE [ps EXCEPT !.st[h] = "closing"])
                         ELSE ps
         IN  [closed EXCEPT !.pool[windowName] = NoHandle]

\* Whether the recreate<Name>Window function of the switch throws: an unknown name,
\* ask or listen without a header entry, or the BrowserWindow constructor failing.
recreateThrows(ps, windowName, ctorThrows) ==
    \/ windowName \notin WindowNames
    \/ windowName \in {"ask", "listen"} /\ ps.pool["header"] = NoHandle
    \/ ctorThrows

\* recreateWindow(windowName): [ps |-> pool state afterwards, ok |-> it returned true]
recreateWindow(ps, windowName, syncClose, ctorThrows) ==
    LET removed == removeOldWindow(ps, windowName, syncClose) IN
    IF recreateThrows(removed, windowName, ctorThrows)
      THEN [ps |-> removed, ok |-> FALSE]
      ELSE [ps |-> newWindow(Forget(removed), windowName, TRUE), ok |-> TRUE]

SetPool(ps) ==
    LET f == Forget(ps) IN
    /\ windowPool' = f.pool
    /\ winState' = f.st
    /\ winName' = f.nm
    /\ closedHandler' = f.ch

\* Number of handles a pool operation may need at most
Room(k) == Cardinality(FreeHandles(PoolState)) >= k

maxRecoveryAttempts == 3

\* Bound on the render-process-gone events of one run
MaxCrashSignals == 2

\* Renderers whose crash is explored
CrashedRenderers == {"ask", "header", "unknown"}

\* createWindows(): the header is constructed and registered; the feature windows
\* follow when the header state is already 'main'.
CreateWindows ==
    /\ ~windowsCreated
    /\ Room(IF currentHeaderState = "main" THEN 5 ELSE 1)
    /\ windowsCreated' = TRUE
    /\ LET withHeader == newWindow(PoolState, "header", FALSE)
       IN  SetPool(IF currentHeaderState = "main"
                     THEN createFeatureWindows(withHeader) ELSE withHeader)
    /\ UNCHANGED <<currentHeaderState, crashVars, layoutVars, motionVars, askVars, extVars>>

handleHeaderStateChanged(state) ==
    /\ windowsCreated
    /\ Room(IF state = "main"
              THEN Cardinality({n \in FeatureWindows : windowPool[n] = NoHandle}) ELSE 0)
    /\ currentHeaderState' = state
    /\ SetPool(IF state = "main" THEN createFeatureWindows(PoolState)
                                 ELSE destroyFeatureWindows(PoolState))
    /\ IF state = "main"
         THEN UNCHANGED <<settingsHideTimer, hideTimers, controlLog>>
         ELSE /\ hideTimers' = clearSettingsHideTimer(hideTimers, settingsHideTimer)
              /\ settingsHideTimer' = IF settingsHideTimer = "pending" THEN "stale"
                                                                       ELSE settingsHideTimer
              /\ controlLog' = [controlLog EXCEPT !.outstanding = FALSE, !.burst = 0]
    /\ UNCHANGED <<windowsCreated, crashVars, layoutVars, motionVars, askVars, displayVars,
                   focusVars, shutdownVars, stateVars, engineVars, serviceVars, lockedByButton, ignoreMouse>>

\* The 'closed' event of a window on which close() was called
WindowClosed(h) ==
    /\ winState[h] = "closing"
    /\ SetPool(emitClosed(PoolState, h))
    /\ UNCHANGED <<currentHeaderState, windowsCreated, crashVars, layoutVars, motionVars, askVars, extVars>>

\* The URL fallback of getWindowNameFromWebContents: the first of ask, listen,
\* settings, header found in the URL of the page.  Windows of createFeatureWindow load
\* content.html?view=<name>, recreated ones ask.html, listen.html, settings.html,
\* shortcuts.html; the header loads header.html.
nameByUrl(created, recreated) ==
    CASE created \in {"ask", "listen", "settings", "header"} -> created
      [] created = "shortcut-settings" /\ ~recreated -> "settings"
      [] OTHER -> "unknown"

\* The names getWindowNameFromWebContents can give a crashed renderer: the pool key
\* of a live pool window, else the name by URL, else 'unknown'.
CrashableNames ==
    {"unknown"}
    \cup {n \in WindowNames : poolLive(n)}
    \cup {nameByUrl(winName[h], closedHandler[h]) : h \in {g \in Handles :
             winState[g] \in {"live", "closing"} /\ windowPool[winName[g]] # g}}

\* app 'render-process-gone': handleRendererCrash runs up to its first await
\* (the isShuttingDown test and the name lookup).
RenderProcessGone(n) ==
    /\ windowsCreated
    /\ crashSignals < MaxCrashSignals
    /\ n \in CrashableNames
    /\ ~isShuttingDown
    /\ crashSignals' = crashSignals + 1
    /\ crashHandlers' = crashHandlers (+) SetToBag({n})
    /\ UNCHANGED <<recoveryAttempts, recoveryTimers, crashDialogs, isShuttingDown, crashLog,
                   poolVars, layoutVars, motionVars, askVars, extVars>>

\* Delay of the attempt handleRendererCrash schedules: 1000 * (attempts + 1)
crashDelay(attempts) == 1000 * (attempts + 1)

\* handleRendererCrash after saveCrashReport and saveEmergencyState have settled
ResumeHandleRendererCrash(n) ==
    /\ BagIn(n, crashHandlers)
    /\ crashHandlers' = crashHandlers (-) SetToBag({n})
    /\ LET attempts == recoveryAttempts[n] IN
       IF attempts < maxRecoveryAttempts
         THEN /\ recoveryAttempts' = [recoveryAttempts EXCEPT ![n] = attempts + 1]
              /\ recoveryTimers' = recoveryTimers (+)
                     SetToBag({[windowName |-> n, delay |-> crashDelay(attempts),
                                attempt |-> attempts + 1, after |-> "crash"]})
              /\ crashDialogs' = crashDialogs
              /\ crashLog' = [crashLog EXCEPT ![n] =
                     IF crashLog[n].fresh
                       THEN [crashLog[n] EXCEPT !.fresh = FALSE, !.restart = attempts + 1,
                                                !.restartDelay = crashDelay(attempts)]
                       ELSE crashLog[n]]
         ELSE /\ crashDialogs' = [crashDialogs EXCEPT ![n] = @ + 1]
              /\ crashLog' = [crashLog EXCEPT ![n] =
                     IF crashLog[n].fresh
                       THEN [crashLog[n] EXCEPT !.fresh = FALSE, !.restart = attempts + 1]
                       ELSE crashLog[n]]
              /\ UNCHANGED <<recoveryAttempts, recoveryTimers>>
    /\ UNCHANGED <<isShuttingDown, crashSignals, poolVars, layoutVars, motionVars, askVars, extVars>>

\* A plausible slip: the counter is left as it is after a successful recovery.
attemptsAfterSuccessKept(attempts) == attempts

\* recoveryAttempts.delete(windowName) after a successful recovery
attemptsAfterSuccess(attempts) == 0

\* A recovery timer fires: attemptWindowRecovery(windowName, crashId)
attemptWindowRecovery(t, syncClose, ctorThrows) ==
    /\ BagIn(t, recoveryTimers)
    /\ Room(1)
    /\ LET n == t.windowName
           r == recreateWindow(PoolState, n, syncClose, ctorThrows)
           attempts == recoveryAttempts[n]
           fired == recoveryTimers (-) SetToBag({t})
       IN  /\ SetPool(r.ps)
           /\ IF r.ok
                THEN /\ recoveryAttempts' = [recoveryAttempts EXCEPT ![n] = attemptsAfterSuccess(attempts)]
                     /\ recoveryTimers' = fired
                     /\ crashDialogs' = crashDialogs
                     /\ crashLog' = [crashLog EXCEPT ![n] =
                            [crashLog[n] EXCEPT !.successAfter = crashLog[n].failedRun,
                                                !.failedRun = 0, !.fresh = TRUE,
                                                !.restart = 0, !.restartDelay = 0]]
                ELSE /\ crashLog' = [crashLog EXCEPT ![n] =
                            [crashLog[n] EXCEPT !.failedRun = @ + 1, !.fresh = FALSE]]
                     /\ IF attempts < maxRecoveryAttempts
                          THEN /\ recoveryAttempts' = [recoveryAttempts EXCEPT ![n] = attempts + 1]
                               /\ recoveryTimers' = fired (+)
                                      SetToBag({[windowName |-> n, delay |-> 2000,
                                                 attempt |-> attempts + 1,
                                                 after |-> "failure"]})
                               /\ crashDialogs' = crashDialogs
                          ELSE /\ crashDialogs' = [crashDialogs EXCEPT ![n] = @ + 1]
                               /\ recoveryTimers' = fired
                               /\ recoveryAttempts' = recoveryAttempts
    /\ UNCHANGED <<crashHandlers, isShuttingDown, crashSignals,
                   currentHeaderState, windowsCreated, layoutVars, motionVars, askVars, extVars>>

InitPool == PoolIdle /\ CrashIdle /\ LayoutIdle /\ MotionIdle /\ AskIdle /\ ExtIdle

NextPool ==
    \/ CreateWindows
    \/ \E state \in {"apikey", "main"} : handleHeaderStateChanged(state)
    \/ \E h \in Handles : WindowClosed(h)
    \/ \E n \in CrashedRenderers : RenderProcessGone(n)
    \/ \E n \in CrashNames : ResumeHandleRendererCrash(n)
    \/ \E t \in BagToSet(recoveryTimers), syncClose \in BOOLEAN, ctorThrows \in BOOLEAN :
          attemptWindowRecovery(t, syncClose, ctorThrows)

SpecPool == InitPool /\ [][NextPool]_vars

(***************************************************************************)
(* Claims about the pool and crash recovery (SpecPool)                     *)
(***************************************************************************)
\* C1: at most one live window per window name, and it is the handle registered in
\* the pool under that name; a live window created under a name is never left
\* outside the pool.  (A window on which close() was called and whose 'closed' event
\* is still to come is not even counted as live here.)
C1_OneLivePerName ==
    \A h \in Handles : winState[h] = "live" => windowPool[winName[h]] = h

\* A recreated ask window left alive outside the pool
C1_LiveOutsidePool ==
    \E h \in Handles : /\ winState[h] = "live" /\ winName[h] = "ask" /\ closedHandler[h]
                       /\ windowPool["ask"] = NoHandle

TimersFor(n) == {t \in BagToSet(recoveryTimers) : t.windowName = n}

\* C2: for every window name, once maxRecoveryAttempts consecutive recreation
\* attempts have failed, no recreation attempt is scheduled for the name and
\* showCrashDialog has been invoked exactly once for it, whatever crash signals
\* arrived.
C2_GiveUpOnce ==
    \A n \in CrashNames :
        crashLog[n].failedRun >= maxRecoveryAttempts
            => TimersFor(n) = {} /\ crashDialogs[n] = 1

\* The attempts of one run never exceed what the counter allows: what does hold.
Crash_CounterBounded ==
    \A n \in CrashNames : recoveryAttempts[n] <= maxRecoveryAttempts

-----------------------------------------------------------------------------
(***************************************************************************)
(* Window controller (windowManager.js) over the Motion Engine.  The       *)
(* engine (smoothMovementManager.js) is taken from its contract: one       *)
(* animation per window and property class (opacity; bounds or position),  *)
(* a new one supersedes the one in flight and drops its completion         *)
(* callback, calls on a destroyed window do nothing, isAnimating is true   *)
(* while any window is in transition.                                      *)
(***************************************************************************)
\* Bound on the controller requests of one run
MaxMotionRequests == 3

isAnimating == \E h \in Handles : fadeTask[h].active \/ boundsTask[h].active

\* movementManager.fade(win, {to, onComplete})
fade(ft, h, to, onComplete) ==
    IF isDestroyed(h) THEN ft
    ELSE [ft EXCEPT ![h] = [active |-> TRUE, to |-> to, onComplete |-> onComplete]]

\* A plausible slip: an animation issued while one is in flight takes over the target
\* but leaves the completion callback of the first in place.
animateWindowBoundsKeepFirst(bt, h, target, onComplete) ==
    IF isDestroyed(h) THEN bt
    ELSE IF bt[h].active THEN [bt EXCEPT ![h].target = target]
    ELSE [bt EXCEPT ![h] = [active |-> TRUE, target |-> target, onComplete |-> onComplete,
                            id |-> IF onComplete = "none" THEN 0 ELSE motionRequests + 1]]

\* movementManager.animateWindowBounds(win, targetBounds, {onComplete})
animateWindowBounds(bt, h, target, onComplete) ==
    IF isDestroyed(h) THEN bt
    ELSE [bt EXCEPT ![h] = [active |-> TRUE, target |-> target, onComplete |-> onComplete,
                            id |-> IF onComplete = "none" THEN 0 ELSE motionRequests + 1]]

\* movementManager.animateWindowPosition(win, {x, y}, {onComplete})
animateWindowPosition(bt, h, pos, onComplete) ==
    animateWindowBounds(bt, h, [bounds[h] EXCEPT !.x = pos.x, !.y = pos.y], onComplete)

\* movementManager.animateLayout(layout): every window of the layout is animated to its
\* bounds; names is the part of the layout passed on.
animateLayout(bt, layout, names) ==
    [h \in Handles |->
        IF \E n \in names : windowPool[n] = h /\ ~isDestroyed(h)
          THEN [active |-> TRUE,
                target |-> layout.at[CHOOSE n \in names : windowPool[n] = h],
                onComplete |-> "none", id |-> 0]
          ELSE bt[h]]

\* Bookkeeping of a step that leaves boundsTask' behind: the callbacks of animations
\* that were in flight on a window on which the step issued another one are noted as
\* first, the callback the step registered on such a window (issuedOn, with the
\* number of the request) as second.  The window in exempt has just completed.
supersededBy(exempt) ==
    {boundsTask[g].id : g \in {g \in Handles \ exempt :
         boundsTask[g].active /\ boundsTask'[g].active /\ boundsTask'[g] # boundsTask[g]}} \ {0}

logIssue(issuedOn, exempt) ==
    [callbackLog EXCEPT
        !.first = @ \cup supersededBy(exempt),
        !.second = @ \cup {[id |-> motionRequests + 1, win |-> g] :
                              g \in {g \in issuedOn : boundsTask[g].active /\ ~isDestroyed(g)}}]

\* What updateChildWindowLayouts reads: the visible live feature windows and their layout
childLayout ==
    LET visibleWindows == {n \in LayoutNames : poolLive(n) /\ visible[windowPool[n]]}
    IN  [visibleWindows |-> visibleWindows,
         newLayout |-> calculateFeatureWindowLayout(visibleWindows, NoBounds)]

\* A plausible slip: the new size is applied at the header's current x
calculateHeaderResizeKeepX(h, width, height) ==
    [x |-> bounds[h].x, y |-> bounds[h].y, width |-> width, height |-> height]

\* calculateHeaderResize(header, {width, height}): the header keeps its centre
calculateHeaderResize(h, width, height) ==
    [x |-> MathRound2(2 * bounds[h].x + bounds[h].width - width),
     y |-> bounds[h].y, width |-> width, height |-> height]

\* Header sizes the header renderer asks for
HeaderSizes == {[width |-> 353, height |-> 47], [width |-> 456, height |-> 364]}

ANIM_OFFSET_X == 50
ANIM_OFFSET_Y == 20

\* handleWindowVisibilityRequest(..., name, shouldBeVisible) for ask and listen
handleWindowVisibilityRequest(name, shouldBeVisible) ==
    /\ motionRequests < MaxMotionRequests
    /\ motionRequests' = motionRequests + 1
    /\ lastRequest' = [lastRequest EXCEPT ![name] = IF shouldBeVisible THEN "show" ELSE "hide"]
    /\ LET win == windowPool[name]
           otherName == IF name = "listen" THEN "ask" ELSE "listen"
           isOtherWinVisible == poolLive(otherName) /\ visible[windowPool[otherName]]
           finalVisibility == (IF shouldBeVisible THEN {name} ELSE {})
                                 \cup (IF isOtherWinVisible THEN {otherName} ELSE {})
           targetLayout == calculateFeatureWindowLayout(finalVisibility, NoBounds)
           offset(b) == IF name = "listen" THEN [b EXCEPT !.x = @ - ANIM_OFFSET_X]
                                           ELSE [b EXCEPT !.y = @ - ANIM_OFFSET_Y]
       IN  IF \/ ~poolLive(name)
              \/ visible[win] = shouldBeVisible
              \/ targetLayout.threw
              \/ shouldBeVisible /\ name \notin targetLayout.placed
             THEN UNCHANGED <<visible, fadeTask, boundsTask, bounds>>
           ELSE IF shouldBeVisible
             THEN /\ bounds' = [bounds EXCEPT ![win] = offset(targetLayout.at[name])]
                  /\ visible' = [visible EXCEPT ![win] = TRUE]
                  /\ fadeTask' = fade(fadeTask, win, 1, "none")
                  /\ boundsTask' = animateLayout(boundsTask, targetLayout, targetLayout.placed)
             ELSE /\ fadeTask' = fade(fadeTask, win, 0, "hide")
                  /\ boundsTask' = animateLayout(
                         animateWindowPosition(boundsTask, win, offset(bounds[win]), "none"),
                         targetLayout, targetLayout.placed \ {name})
                  /\ UNCHANGED <<visible, bounds>>
    /\ callbackLog' = logIssue({}, {})
    /\ UNCHANGED <<resizable, layoutRequest, layoutResult, poolVars, crashVars, askVars, restExt>>

\* The window:adjustWindowHeight handler
adjustWindowHeight(name, targetHeight) ==
    /\ motionRequests < MaxMotionRequests
    /\ motionRequests' = motionRequests + 1
    /\ IF ~poolLive(name)
         THEN UNCHANGED <<resizable, boundsTask>>
         ELSE LET senderWindow == windowPool[name]
                  newBounds == calculateWindowHeightAdjustment(senderWindow, targetHeight)
                  wasResizable == resizable[senderWindow]
              IN  /\ resizable' = [resizable EXCEPT ![senderWindow] = TRUE]
                  /\ boundsTask' = animateWindowBounds(boundsTask, senderWindow, newBounds,
                         IF wasResizable THEN "relayout" ELSE "restore")
    /\ callbackLog' = logIssue({windowPool[name]} \ {NoHandle}, {})
    /\ UNCHANGED <<visible, fadeTask, lastRequest, layoutVars, poolVars, crashVars, askVars, restExt>>

\* The window:resizeHeaderWindow handler
resizeHeaderWindow(size) ==
    /\ motionRequests < MaxMotionRequests
    /\ motionRequests' = motionRequests + 1
    /\ IF ~poolLive("header") \/ isAnimating
         THEN UNCHANGED <<resizable, boundsTask>>
         ELSE LET header == windowPool["header"]
                  newHeaderBounds == calculateHeaderResize(header, size.width, size.height)
                  wasResizable == resizable[header]
              IN  /\ resizable' = [resizable EXCEPT ![header] = TRUE]
                  /\ boundsTask' = animateWindowBounds(boundsTask, header, newHeaderBounds,
                         IF wasResizable THEN "relayout" ELSE "restore")
    /\ callbackLog' = [logIssue({}, {}) EXCEPT
          !.asked = size, !.dropped = ~poolLive("header") \/ isAnimating]
    /\ UNCHANGED <<visible, fadeTask, lastRequest, layoutVars, poolVars, crashVars, askVars, restExt>>

\* The opacity animation of window h reaches its target; its onComplete runs
\* ("hide": removeAggressiveAlwaysOnTop(win); win.hide(), unless win is destroyed).
FadeComplete(h) ==
    /\ fadeTask[h].active
    /\ fadeTask' = [fadeTask EXCEPT ![h] = NoFade]
    /\ visible' = IF fadeTask[h].onComplete = "hide" /\ ~isDestroyed(h)
                    THEN [visible EXCEPT ![h] = FALSE] ELSE visible
    /\ UNCHANGED <<resizable, boundsTask, lastRequest, motionRequests,
                   layoutVars, poolVars, crashVars, askVars, extVars>>

\* The bounds animation of window h reaches its target; its onComplete runs
\* ("restore": setResizable(false) then updateChildWindowLayouts(true); "relayout":
\* updateChildWindowLayouts(true) only; neither when the window is destroyed).
BoundsComplete(h) ==
    /\ boundsTask[h].active
    /\ UNCHANGED <<poolVars, visible>>
    /\ bounds' = IF isDestroyed(h) THEN bounds
                 ELSE [bounds EXCEPT ![h] = boundsTask[h].target]
    /\ LET cb == IF isDestroyed(h) THEN "none" ELSE boundsTask[h].onComplete
           done == [boundsTask EXCEPT ![h] = NoMove]
       IN  /\ resizable' = IF cb = "restore" THEN [resizable EXCEPT ![h] = FALSE] ELSE resizable
           /\ boundsTask' =
                 IF cb = "none" \/ childLayout'.visibleWindows = {} \/ childLayout'.newLayout.threw
                   THEN done
                   ELSE animateLayout(done, childLayout'.newLayout, childLayout'.newLayout.placed)
    /\ callbackLog' = [callbackLog EXCEPT
          !.first = @ \cup supersededBy({h}),
          !.fired = IF boundsTask[h].id # 0 /\ ~isDestroyed(h)
                      THEN Append(@, boundsTask[h].id) ELSE @]
    /\ UNCHANGED <<fadeTask, lastRequest, motionRequests, layoutRequest, layoutResult,
                   crashVars, askVars, restExt>>

\* After createWindows() in state 'main': header (shown), ask and listen (hidden),
\* none of them resizable.
InitMotion ==
    /\ windowPool = [n \in WindowNames |-> LayoutHandle[n]]
    /\ winState = [h \in Handles |-> IF h \in 1..3 THEN "live" ELSE "none"]
    /\ winName = [h \in Handles |->
          CASE h = 1 -> "header" [] h = 2 -> "ask" [] h = 3 -> "listen" [] OTHER -> "none"]
    /\ closedHandler = [h \in Handles |-> FALSE]
    /\ currentHeaderState = "main"
    /\ windowsCreated = TRUE
    /\ bounds = [h \in Handles |->
          CASE h = 1 -> [x |-> 784, y |-> 21, width |-> 353, height |-> 47]
            [] h = 2 -> [x |-> 0, y |-> 0, width |-> 600, height |-> 100]
            [] h = 3 -> [x |-> 0, y |-> 0, width |-> 400, height |-> 100]
            [] OTHER -> NoBounds]
    /\ layoutRequest = NoRequest
    /\ layoutResult = NoResult
    /\ visible = [h \in Handles |-> h = 1]
    /\ resizable = [h \in Handles |-> FALSE]
    /\ fadeTask = [h \in Handles |-> NoFade]
    /\ boundsTask = [h \in Handles |-> NoMove]
    /\ lastRequest = [n \in LayoutNames |-> "none"]
    /\ motionRequests = 0
    /\ CrashIdle /\ AskIdle /\ ExtIdle

NextMotion ==
    \/ \E name \in LayoutNames, shouldBeVisible \in BOOLEAN :
          handleWindowVisibilityRequest(name, shouldBeVisible)
    \/ \E name \in LayoutNames, targetHeight \in HeightSet :
          adjustWindowHeight(name, targetHeight)
    \/ \E size \in HeaderSizes : resizeHeaderWindow(size)
    \/ \E h \in Handles : FadeComplete(h)
    \/ \E h \in Handles : BoundsComplete(h)
    \/ \E state \in {"apikey"} : handleHeaderStateChanged(state)

SpecMotion == InitMotion /\ [][NextMotion]_vars

(***************************************************************************)
(* Claims about the window controller (SpecMotion)                         *)
(***************************************************************************)
\* C4: for ask and listen the last visibility request wins: once no animation is in
\* flight, a live window is visible exactly when the latest request for it was a show
\* request, also when that request arrived during the opposite fade.
C4_LastRequestWins ==
    \A n \in LayoutNames :
        (poolLive(n) /\ ~isAnimating /\ lastRequest[n] # "none")
            => (visible[windowPool[n]] <=> lastRequest[n] = "show")

\* A hide request that arrives during the fade-in does win: what does hold.
Motion_HideWins ==
    \A n \in LayoutNames :
        (poolLive(n) /\ ~isAnimating /\ lastRequest[n] = "hide") => ~visible[windowPool[n]]

\* C5: a window that was non-resizable before window:adjustWindowHeight or
\* window:resizeHeaderWindow requests is non-resizable again once no animation is in
\* flight, unless it was destroyed, whatever the sequence of requests.
C5_ResizableRestored ==
    \A h \in Handles : (winState[h] = "live" /\ ~isAnimating) => ~resizable[h]

\* The header, whose resize requests are dropped while anything animates, is restored.
Motion_HeaderRestored ==
    (poolLive("header") /\ ~isAnimating) => ~resizable[windowPool["header"]]

-----------------------------------------------------------------------------
(***************************************************************************)
(* The ask renderer's content-fit resize requests (AskView.js).  A frame   *)
(* runs from one round of animation-frame callbacks to the next: the       *)
(* callbacks run first, then the ResizeObserver notifications of the       *)
(* frame are delivered; render passes and timers run between frames.       *)
(* A request is kept as the argument list of                               *)
(* window.api.askView.adjustWindowHeight.                                  *)
(***************************************************************************)
\* Ideal content heights (header + response + navigation + input regions)
ContentHeights == {300, 650, 900}
\* Heights of the observed container
ContainerHeights == {96, 300, 900}
\* Heights of the ask window
WindowHeights == {100, 700}

Min(a, b) == IF a < b THEN a ELSE b

\* adjustWindowHeight(): the measurement waits for this.updateComplete
askAdjustWindowHeight(pending) == pending + 1

\* const targetHeight = Math.min(700, idealHeight)
targetHeightOf(idealHeight) == Min(700, idealHeight)

\* firstUpdated(): setTimeout(() => this.adjustWindowHeight(), 200)
firstUpdated ==
    /\ firstUpdatedTimer = "unset"
    /\ firstUpdatedTimer' = "pending"
    /\ UNCHANGED <<isThrottled, updatePending, contentHeight, innerHeight, observerState,
                   frameSignals, poolVars, crashVars, layoutVars, motionVars, extVars>>

\* The 200 ms timer of firstUpdated fires
FirstUpdatedTimerFires ==
    /\ firstUpdatedTimer = "pending"
    /\ firstUpdatedTimer' = "fired"
    /\ updatePending' = askAdjustWindowHeight(updatePending)
    /\ UNCHANGED <<isThrottled, contentHeight, innerHeight, observerState,
                   frameSignals, poolVars, crashVars, layoutVars, motionVars, extVars>>

\* updated(changedProperties) with isLoading, currentResponse or showTextInput changed:
\* the content is rendered anew and adjustWindowHeightThrottled() is called; the
\* container's size change is queued for the ResizeObserver.
updated(newHeight) ==
    /\ firstUpdatedTimer # "unset"
    /\ contentHeight' = newHeight
    /\ isThrottled' = TRUE
    /\ observerState' = IF observerState = "due" THEN "due" ELSE "queued"
    /\ UNCHANGED <<updatePending, firstUpdatedTimer, innerHeight,
                   frameSignals, poolVars, crashVars, layoutVars, motionVars, extVars>>

\* A new frame: the requestAnimationFrame callback of adjustWindowHeightThrottled runs
\* (adjustWindowHeight(); isThrottled = false) and queued observations become due.
AnimationFrame ==
    /\ updatePending = 0
    /\ observerState # "due"
    /\ isThrottled \/ observerState = "queued" \/ frameSignals # <<>>
    /\ frameSignals' = <<>>
    /\ isThrottled' = FALSE
    /\ updatePending' = IF isThrottled THEN askAdjustWindowHeight(updatePending) ELSE updatePending
    /\ observerState' = IF observerState = "queued" THEN "due" ELSE observerState
    /\ UNCHANGED <<firstUpdatedTimer, contentHeight, innerHeight,
                   poolVars, crashVars, layoutVars, motionVars, extVars>>

\* this.updateComplete settles for one adjustWindowHeight() call: the regions are
\* measured and adjustWindowHeight("ask", targetHeight) is sent.
UpdateComplete ==
    /\ updatePending > 0
    /\ updatePending' = updatePending - 1
    /\ frameSignals' = Append(frameSignals, <<"ask", targetHeightOf(contentHeight)>>)
    /\ UNCHANGED <<isThrottled, firstUpdatedTimer, contentHeight, innerHeight, observerState,
                   poolVars, crashVars, layoutVars, motionVars, extVars>>

\* The ResizeObserver callback for the container: requestWindowResize(Math.ceil(needed))
\* when needed > window.innerHeight - 4, which sends adjustWindowHeight(targetHeight).
ResizeObserverCallback(needed) ==
    /\ observerState = "due"
    /\ observerState' = "idle"
    /\ frameSignals' = IF needed > innerHeight - 4
                         THEN Append(frameSignals, <<needed>>) ELSE frameSignals
    /\ UNCHANGED <<isThrottled, updatePending, firstUpdatedTimer, contentHeight, innerHeight,
                   poolVars, crashVars, layoutVars, motionVars, extVars>>

\* The host has resized the ask window
WindowResized(h) ==
    /\ innerHeight # h
    /\ innerHeight' = h
    /\ UNCHANGED <<isThrottled, updatePending, firstUpdatedTimer, contentHeight, observerState,
                   frameSignals, poolVars, crashVars, layoutVars, motionVars, extVars>>

\* The ask view after construction (isThrottled = false), in a window of height 100
InitAsk ==
    /\ isThrottled = FALSE
    /\ updatePending = 0
    /\ firstUpdatedTimer = "unset"
    /\ contentHeight \in ContentHeights
    /\ innerHeight = 100
    /\ observerState = "idle"
    /\ frameSignals = <<>>
    /\ PoolIdle /\ CrashIdle /\ LayoutIdle /\ MotionIdle /\ ExtIdle

NextAsk ==
    \/ firstUpdated
    \/ FirstUpdatedTimerFires
    \/ \E newHeight \in ContentHeights : updated(newHeight)
    \/ AnimationFrame
    \/ UpdateComplete
    \/ \E needed \in ContainerHeights : ResizeObserverCallback(needed)
    \/ \E h \in WindowHeights : WindowResized(h)

SpecAsk == InitAsk /\ [][NextAsk]_vars

(***************************************************************************)
(* Claims about the ask renderer (SpecAsk)                                 *)
(***************************************************************************)
\* C6: within one animation frame of the ask view at most one resize signal reaches
\* the host, however many render passes, observer notifications or timers occurred.
C6_OneSignalPerFrame == Len(frameSignals) <= 1

\* The throttled path alone keeps to one signal per frame: what does hold.
Ask_ThrottledOncePerFrame ==
    Cardinality({i \in 1..Len(frameSignals) : Len(frameSignals[i]) = 2})
        <= 1 + (IF firstUpdatedTimer = "fired" THEN 1 ELSE 0)

\* C7: every resize request the ask renderer sends carries the window identifier "ask"
\* and a target height of at most 700.
C7_AskAndClamped ==
    \A i \in 1..Len(frameSignals) :
        /\ Len(frameSignals[i]) = 2
        /\ frameSignals[i][1] = "ask"
        /\ frameSignals[i][2] <= 700

\* The requests of adjustWindowHeight() do carry "ask" and a height of at most 700.
Ask_MeasuredPathClamped ==
    \A i \in 1..Len(frameSignals) :
        Len(frameSignals[i]) = 2 => frameSignals[i][1] = "ask" /\ frameSignals[i][2] <= 700

-----------------------------------------------------------------------------
(***************************************************************************)
(* Displays: moving the header between displays (windowLayoutManager.js,   *)
(* windowManager.js).  A display is named by its key in Displays.          *)
(***************************************************************************)
DisplayIds == {"primary", "secondary"}

\* The id of getCurrentDisplay(window)
getCurrentDisplayId(h) ==
    IF h = NoHandle \/ isDestroyed(h) THEN "primary"
    ELSE IF 2 * bounds[h].x + bounds[h].width < 0 /\ "secondary" \in attached
           THEN "secondary" ELSE "primary"

\* Math.round(base + width * num / den) for den > 0
RoundScaled(base, width, num, den) == base + ((2 * width * num + den) \div (2 * den))

\* A plausible slip: the position is scaled without taking off the source work area's origin.
newPositionAbsolute(cur, cd, td) ==
    [x |-> RoundScaled(td.x, td.width, cur.x, cd.width),
     y |-> RoundScaled(td.y, td.height, cur.y, cd.height)]

\* The position on the target work area td at the fraction cur has in its work area cd
newPositionRelative(cur, cd, td) ==
    [x |-> RoundScaled(td.x, td.width, cur.x - cd.x, cd.width),
     y |-> RoundScaled(td.y, td.height, cur.y - cd.y, cd.height)]

\* calculateNewPositionForDisplay(window, targetDisplayId): null for a missing or
\* destroyed window and for a display that is not listed
calculateNewPositionForDisplay(h, targetDisplayId) ==
    IF h = NoHandle \/ isDestroyed(h) \/ targetDisplayId \notin attached
      THEN [isNull |-> TRUE, result |-> NoPosition]
    ELSE IF getCurrentDisplayId(h) = targetDisplayId
      THEN [isNull |-> FALSE, result |-> [x |-> bounds[h].x, y |-> bounds[h].y]]
    ELSE [isNull |-> FALSE,
          result |-> newPositionRelative(bounds[h], Displays[getCurrentDisplayId(h)],
                                         Displays[targetDisplayId])]

\* Places of the header: the four of HeaderBoundsSet and two more on the secondary display
DisplayHeaderSet ==
    HeaderBoundsSet \cup { [x |-> -1, y |-> 25, width |-> 353, height |-> 47],
                           [x |-> -777, y |-> 358, width |-> 600, height |-> 60] }

\* One call of calculateNewPositionForDisplay for the header, as window:moveToDisplay
\* makes it, its result kept.
CallNewPosition(targetDisplayId) ==
    /\ LET header == windowPool["header"]
           r == calculateNewPositionForDisplay(header, targetDisplayId)
       IN  posRequest' = [made |-> TRUE, window |-> bounds[header],
                          source |-> getCurrentDisplayId(header), target |-> targetDisplayId,
                          isNull |-> r.isNull, result |-> r.result]
    /\ displayLog' = [displayLog EXCEPT !.fresh = FALSE]
    /\ UNCHANGED <<controlVars, focusVars, shutdownVars, stateVars, engineVars, serviceVars, attached, poolVars, crashVars, layoutVars, motionVars, askVars>>

\* updateChildWindowLayouts(false) for the header at headerBounds: the bounds of all
\* windows afterwards
snapChildren(headerBounds) ==
    LET visibleWindows == {n \in LayoutNames : poolLive(n) /\ visible[windowPool[n]]}
        newLayout == calculateFeatureWindowLayout(visibleWindows, headerBounds)
    IN  IF visibleWindows = {} \/ newLayout.threw THEN bounds
        ELSE animateLayoutInstant(newLayout)

\* The header's 'moved' event after the user dragged it to headerBounds: nothing
\* while the motion engine is animating, else updateChildWindowLayouts(false)
HeaderMoved(headerBounds) ==
    /\ poolLive("header")
    /\ bounds[windowPool["header"]] # headerBounds
    /\ bounds' = [(IF \E h \in Handles : fadeTask[h].active \/ boundsTask[h].active
                     THEN bounds ELSE snapChildren(headerBounds))
                     EXCEPT ![windowPool["header"]] = headerBounds]
    /\ displayLog' = [displayLog EXCEPT !.fresh = FALSE]
    /\ UNCHANGED <<controlVars, focusVars, shutdownVars, stateVars, engineVars, serviceVars, attached, posRequest, layoutRequest, layoutResult,
                   poolVars, crashVars, motionVars, askVars>>

\* screen 'display-removed' for the secondary display.  stillListed: the handler runs
\* while screen.getDisplayNearestPoint still answers with the removed display;
\* otherwise the display is gone from the screen module when the handler runs.
DisplayRemoved(stillListed) ==
    /\ "secondary" \in attached
    /\ attached' = attached \ {"secondary"}
    /\ LET header == windowPool["header"]
           wasOn == poolLive("header") /\ getCurrentDisplayId(header) = "secondary"
           newPosition == calculateNewPositionForDisplay(header, "primary")
       IN  /\ displayLog' = [fresh |-> TRUE, wasOnRemoved |-> wasOn, stale |-> stillListed,
                             before |-> IF wasOn THEN bounds[header] ELSE NoBounds]
           /\ IF stillListed /\ wasOn /\ ~newPosition.isNull
                THEN LET moved == [bounds[header] EXCEPT !.x = newPosition.result.x,
                                                         !.y = newPosition.result.y]
                     IN  bounds' = [snapChildren(moved) EXCEPT ![header] = moved]
                ELSE bounds' = bounds
    /\ UNCHANGED <<controlVars, focusVars, shutdownVars, stateVars, engineVars, serviceVars, posRequest, layoutRequest, layoutResult, poolVars, crashVars, motionVars, askVars>>

\* screen 'display-added': logged only
DisplayAdded ==
    /\ "secondary" \notin attached
    /\ attached' = attached \cup {"secondary"}
    /\ displayLog' = [displayLog EXCEPT !.fresh = FALSE]
    /\ UNCHANGED <<controlVars, focusVars, shutdownVars, stateVars, engineVars, serviceVars, posRequest, poolVars, crashVars, layoutVars, motionVars, askVars>>

InitDisplay ==
    /\ windowPool = [n \in WindowNames |-> LayoutHandle[n]]
    /\ winState = [h \in Handles |-> IF h \in 1..3 THEN "live" ELSE "none"]
    /\ winName = [h \in Handles |->
          CASE h = 1 -> "header" [] h = 2 -> "ask" [] h = 3 -> "listen" [] OTHER -> "none"]
    /\ closedHandler = [h \in Handles |-> FALSE]
    /\ currentHeaderState = "main"
    /\ windowsCreated = TRUE
    /\ \E hb \in DisplayHeaderSet :
          bounds = [h \in Handles |->
             CASE h = 1 -> hb
               [] h = 2 -> [x |-> 0, y |-> 0, width |-> 600, height |-> 100]
               [] h = 3 -> [x |-> 0, y |-> 0, width |-> 400, height |-> 400]
               [] OTHER -> NoBounds]
    /\ layoutRequest = NoRequest
    /\ layoutResult = NoResult
    /\ \E shown \in SUBSET {2, 3} : visible = [h \in Handles |-> h = 1 \/ h \in shown]
    /\ resizable = [h \in Handles |-> FALSE]
    /\ fadeTask = [h \in Handles |-> NoFade]
    /\ boundsTask = [h \in Handles |-> NoMove]
    /\ lastRequest = [n \in LayoutNames |-> "none"]
    /\ motionRequests = 0
    /\ CrashIdle /\ AskIdle /\ ExtIdle

NextDisplay ==
    \/ \E targetDisplayId \in DisplayIds \cup {"gone"} : CallNewPosition(targetDisplayId)
    \/ \E headerBounds \in DisplayHeaderSet : HeaderMoved(headerBounds)
    \/ \E stillListed \in BOOLEAN : DisplayRemoved(stillListed)
    \/ DisplayAdded

SpecDisplay == InitDisplay /\ [][NextDisplay]_vars

(***************************************************************************)
(* Claims about displays (SpecDisplay)                                     *)
(***************************************************************************)
\* v is num / den of width, rounded to a whole pixel: |v - width * num / den| <= 1/2
SameFraction(v, width, num, den) == 2 * Abs(v * den - width * num) <= den

\* C14: calculateNewPositionForDisplay returns the window's current position when the
\* window's display is the target display; otherwise the returned position, as a
\* fraction of the target work area, is the window's fraction within its present work
\* area, up to the rounding to whole pixels.
C14_FractionPreserved ==
    (posRequest.made /\ ~posRequest.isNull) =>
        LET cur == posRequest.window
            cd  == Displays[posRequest.source]
            td  == Displays[posRequest.target]
            r   == posRequest.result
        IN  IF posRequest.source = posRequest.target
              THEN r = [x |-> cur.x, y |-> cur.y]
              ELSE /\ SameFraction(r.x - td.x, td.width, cur.x - cd.x, cd.width)
                   /\ SameFraction(r.y - td.y, td.height, cur.y - cd.y, cd.height)

\* C14 witness: the header at (-777, 358) on the secondary display asked to the primary
\* one: fractions 503/1280 and 333/1020 give (755, 353)
C14_Witness ==
    /\ posRequest.made /\ ~posRequest.isNull
    /\ posRequest.source = "secondary" /\ posRequest.target = "primary"
    /\ posRequest.window.x = -777 /\ posRequest.window.y = 358
    /\ posRequest.result = [x |-> 755, y |-> 353]

\* The header stands on the primary display at the fraction it had on the removed one,
\* and every visible child has the bounds of the layout recomputed from there.
RelocatedAndSnapped ==
    LET header == bounds[windowPool["header"]]
        before == displayLog.before
        cd == Displays.secondary
        td == Displays.primary
        shown == {n \in LayoutNames : poolLive(n) /\ visible[windowPool[n]]}
    IN  /\ SameFraction(header.x - td.x, td.width, before.x - cd.x, cd.width)
        /\ SameFraction(header.y - td.y, td.height, before.y - cd.y, cd.height)
        /\ \A n \in shown :
              bounds[windowPool[n]] = calculateFeatureWindowLayout(shown, NoBounds).at[n]

\* C15: right after a display-removed event that found the header on the removed
\* display, the header is on the primary display at the same relative offset and every
\* visible child window has the bounds of the layout recomputed from the header's new
\* position.
C15_HeaderRelocated ==
    (displayLog.fresh /\ displayLog.wasOnRemoved) => RelocatedAndSnapped

\* What does hold: the relocation happens when the screen module still answers with the
\* removed display while the handler runs.
Display_RelocatedWhenStillListed ==
    (displayLog.fresh /\ displayLog.wasOnRemoved /\ displayLog.stale) => RelocatedAndSnapped

\* The relocation does occur with both children visible.
Display_RelocationOccurs ==
    /\ displayLog.fresh /\ displayLog.wasOnRemoved /\ displayLog.stale
    /\ visible[2] /\ visible[3] /\ bounds[1].x >= 0 /\ bounds[2].x # 0

(***************************************************************************)
(* The settings and shortcut-settings popovers (SpecControl):              *)
(* handleWindowVisibilityRequest's settings branch with its 200 ms hide    *)
(* timer, its shortcut-settings branch with disableClicks/restoreClicks,   *)
(* and the ask/listen branch.  Time advances in steps of 100 ms; a timer   *)
(* that is due fires before time advances further.                         *)
(***************************************************************************)
ControlHandle == [n \in WindowNames |->
    CASE n = "header" -> 1 [] n = "ask" -> 2 [] n = "listen" -> 3
      [] n = "settings" -> 4 [] OTHER -> 5]

\* layoutManager.calculateSettingsWindowPosition(); isNull when header or settings
\* is missing or destroyed
calculateSettingsWindowPosition ==
    IF ~poolLive("header") \/ ~poolLive("settings")
      THEN [isNull |-> TRUE, position |-> NoBounds]
      ELSE LET headerBounds == bounds[windowPool["header"]]
               settingsDimensions == getWindowDimensions("settings")
           IN  [isNull |-> FALSE,
                position |->
                   [x |-> headerBounds.x + headerBounds.width - settingsDimensions.width + 170,
                    y |-> headerBounds.y + headerBounds.height + 5,
                    width |-> settingsDimensions.width,
                    height |-> settingsDimensions.height]]

\* layoutManager.calculateShortcutSettingsWindowPosition(), called with both windows alive
calculateShortcutSettingsWindowPosition ==
    LET headerBounds == bounds[windowPool["header"]]
        shortcutDimensions == getWindowDimensions("shortcut-settings")
    IN  [x |-> MathRound2(2 * headerBounds.x + headerBounds.width - shortcutDimensions.width),
         y |-> headerBounds.y,
         width |-> shortcutDimensions.width,
         height |-> shortcutDimensions.height]

\* disableClicks(selectedWindow): every other live pool window ignores mouse events
disableClicks(selectedWindow) ==
    [h \in Handles |->
        IF h # selectedWindow /\ ~isDestroyed(h) /\ \E n \in WindowNames : windowPool[n] = h
          THEN TRUE ELSE ignoreMouse[h]]

\* restoreClicks(): every live pool window accepts mouse events
restoreClicks ==
    [h \in Handles |->
        IF ~isDestroyed(h) /\ \E n \in WindowNames : windowPool[n] = h
          THEN FALSE ELSE ignoreMouse[h]]

\* A plausible slip: the hide path arms a new timer without clearing the pending one.
timersAfterHideRequestKept(win) ==
    Append(hideTimers, [win |-> win, remaining |-> 200])

\* The hide path: clearTimeout(settingsHideTimer), then setTimeout(..., 200)
timersAfterHideRequest(win) ==
    Append(clearSettingsHideTimer(hideTimers, settingsHideTimer),
           [win |-> win, remaining |-> 200])

\* handleWindowVisibilityRequest(..., 'settings', shouldBeVisible)
settingsVisibilityRequest(shouldBeVisible) ==
    LET win == windowPool["settings"]
        position == calculateSettingsWindowPosition
    IN
    /\ IF ~poolLive("settings")
         THEN UNCHANGED <<settingsHideTimer, hideTimers, lockedByButton, controlLog,
                          bounds, visible>>
       ELSE IF shouldBeVisible
         THEN /\ hideTimers' = clearSettingsHideTimer(hideTimers, settingsHideTimer)
              /\ settingsHideTimer' = "null"
              /\ IF ~position.isNull
                   THEN /\ bounds' = [bounds EXCEPT ![win] = position.position]
                        /\ lockedByButton' = [lockedByButton EXCEPT ![win] = TRUE]
                        /\ visible' = [visible EXCEPT ![win] = TRUE]
                   ELSE UNCHANGED <<bounds, lockedByButton, visible>>
              /\ controlLog' = [controlLog EXCEPT !.outstanding = FALSE, !.hides = 0,
                                                  !.burst = 0, !.lockedAtRequest = FALSE]
         ELSE /\ hideTimers' = timersAfterHideRequest(win)
              /\ settingsHideTimer' = "pending"
              /\ lockedByButton' = [lockedByButton EXCEPT ![win] = FALSE]
              /\ controlLog' = [controlLog EXCEPT
                    !.sinceRequest = 0,
                    !.outstanding = TRUE,
                    !.hides = IF hideTimers # <<>> THEN controlLog.hides ELSE 0,
                    !.burst = IF hideTimers = <<>> THEN 1
                              ELSE IF controlLog.burst < 2 THEN controlLog.burst + 1
                              ELSE controlLog.burst,
                    !.lockedAtRequest = lockedByButton[win]]
              /\ UNCHANGED <<bounds, visible>>
    /\ UNCHANGED <<ignoreMouse, resizable, fadeTask, boundsTask, lastRequest, motionRequests,
                   layoutRequest, layoutResult, poolVars, crashVars, askVars, displayVars, focusVars, shutdownVars, stateVars, engineVars, serviceVars>>

\* The callback of the settings hide timer runs, 200 ms after it was armed
SettingsHideTimerFires ==
    \E i \in 1..Len(hideTimers) :
       LET win == hideTimers[i].win
           hidden == ~isDestroyed(win)
       IN
       /\ hideTimers[i].remaining = 0
       /\ hideTimers' = [j \in 1..(Len(hideTimers) - 1) |->
                            IF j < i THEN hideTimers[j] ELSE hideTimers[j + 1]]
       /\ visible' = IF hidden THEN [visible EXCEPT ![win] = FALSE] ELSE visible
       /\ settingsHideTimer' = "null"
       /\ controlLog' = IF hidden
            THEN [controlLog EXCEPT !.hides = @ + 1,
                                    !.hideDelay["settings"] = controlLog.sinceRequest]
            ELSE controlLog
       /\ UNCHANGED <<lockedByButton, ignoreMouse, bounds, resizable, fadeTask, boundsTask,
                      lastRequest, motionRequests, layoutRequest, layoutResult,
                      poolVars, crashVars, askVars, displayVars, focusVars, shutdownVars, stateVars, engineVars, serviceVars>>

\* handleWindowVisibilityRequest(..., 'shortcut-settings', shouldBeVisible)
shortcutSettingsVisibilityRequest(shouldBeVisible) ==
    LET win == windowPool["shortcut-settings"] IN
    /\ IF ~poolLive("shortcut-settings") \/ visible[win] = shouldBeVisible
         THEN UNCHANGED <<bounds, visible, ignoreMouse, controlLog>>
       ELSE IF shouldBeVisible
         THEN /\ bounds' = [bounds EXCEPT ![win] = calculateShortcutSettingsWindowPosition]
              /\ ignoreMouse' = disableClicks(win)
              /\ visible' = [visible EXCEPT ![win] = TRUE]
              /\ UNCHANGED controlLog
         ELSE /\ ignoreMouse' = restoreClicks
              /\ visible' = [visible EXCEPT ![win] = FALSE]
              /\ controlLog' = [controlLog EXCEPT !.hideDelay["shortcut-settings"] = 0]
              /\ UNCHANGED bounds
    /\ UNCHANGED <<settingsHideTimer, hideTimers, lockedByButton, resizable, fadeTask,
                   boundsTask, lastRequest, motionRequests, layoutRequest, layoutResult,
                   poolVars, crashVars, askVars, displayVars, focusVars, shutdownVars, stateVars, engineVars, serviceVars>>

\* 100 ms pass; no timer is overdue
Tick ==
    /\ \A i \in 1..Len(hideTimers) : hideTimers[i].remaining > 0
    /\ hideTimers # <<>> \/ controlLog.sinceRequest < 300
    /\ hideTimers' = [i \in 1..Len(hideTimers) |->
                         [hideTimers[i] EXCEPT !.remaining = @ - 100]]
    /\ controlLog' = [controlLog EXCEPT
                         !.sinceRequest = IF @ < 300 THEN @ + 100 ELSE @]
    /\ UNCHANGED <<settingsHideTimer, lockedByButton, ignoreMouse, layoutVars, motionVars,
                   poolVars, crashVars, askVars, displayVars, focusVars, shutdownVars, stateVars, engineVars, serviceVars>>

\* After createWindows() in state 'main': header shown, the four feature windows hidden
InitControl ==
    /\ windowPool = ControlHandle
    /\ winState = [h \in Handles |-> IF h \in 1..5 THEN "live" ELSE "none"]
    /\ winName = [h \in Handles |->
          IF h \in 1..5 THEN CHOOSE n \in WindowNames : ControlHandle[n] = h ELSE "none"]
    /\ closedHandler = [h \in Handles |-> FALSE]
    /\ currentHeaderState = "main"
    /\ windowsCreated = TRUE
    /\ bounds = [h \in Handles |->
          CASE h = 1 -> [x |-> 784, y |-> 21, width |-> 353, height |-> 47]
            [] h = 2 -> [x |-> 0, y |-> 0, width |-> 600, height |-> 100]
            [] h = 3 -> [x |-> 0, y |-> 0, width |-> 400, height |-> 100]
            [] h = 4 -> [x |-> 0, y |-> 0, width |-> 240, height |-> 400]
            [] h = 5 -> [x |-> 0, y |-> 0, width |-> 353, height |-> 720]
            [] OTHER -> NoBounds]
    /\ layoutRequest = NoRequest
    /\ layoutResult = NoResult
    /\ visible = [h \in Handles |-> h = 1]
    /\ resizable = [h \in Handles |-> FALSE]
    /\ fadeTask = [h \in Handles |-> NoFade]
    /\ boundsTask = [h \in Handles |-> NoMove]
    /\ lastRequest = [n \in LayoutNames |-> "none"]
    /\ motionRequests = 0
    /\ CrashIdle /\ AskIdle /\ ExtIdle

NextControl ==
    \/ \E shouldBeVisible \in BOOLEAN : settingsVisibilityRequest(shouldBeVisible)
    \/ SettingsHideTimerFires
    \/ \E shouldBeVisible \in BOOLEAN : shortcutSettingsVisibilityRequest(shouldBeVisible)
    \/ \E name \in {"ask"}, shouldBeVisible \in BOOLEAN :
          handleWindowVisibilityRequest(name, shouldBeVisible)
    \/ \E h \in Handles : FadeComplete(h)
    \/ \E h \in Handles : BoundsComplete(h)
    \/ \E state \in {"apikey"} : handleHeaderStateChanged(state)
    \/ Tick

SpecControl == InitControl /\ [][NextControl]_vars

(***************************************************************************)
(* Claims about the popovers (SpecControl)                                 *)
(***************************************************************************)
\* In this step the popover named n, alive and visible, is hidden, and no hide timer
\* for it that has run its 200 ms fires
HiddenWithoutDelay(n) ==
    /\ poolLive(n) /\ visible[windowPool[n]] /\ ~visible'[windowPool[n]]
    /\ ~\E i \in 1..Len(hideTimers) :
           hideTimers[i].win = windowPool[n] /\ hideTimers[i].remaining = 0

\* C16: the settings window and the shortcut-settings window are never hidden
\* at once by a hide request: each is hidden only by a hide timer that fires 200 ms
\* after the request, and a show request in between cancels that timer.
C16_HideAfterDelay ==
    [][\A n \in {"settings", "shortcut-settings"} : ~HiddenWithoutDelay(n)]_vars

\* What the code does: the settings window is hidden only by its timer, 200 ms after
\* the latest hide request, and never while a show request came after it.
Control_SettingsHideAfterDelay ==
    [][/\ ~HiddenWithoutDelay("settings")
       /\ (poolLive("settings") /\ visible[windowPool["settings"]]
             /\ ~visible'[windowPool["settings"]])
            => controlLog.outstanding /\ controlLog.sinceRequest = 200]_vars

\* The shortcut-settings window has been hidden by a hide request, with no delay
Control_ShortcutHiddenAtOnce ==
    /\ controlLog.hideDelay["shortcut-settings"] = 0
    /\ poolLive("shortcut-settings") /\ ~visible[windowPool["shortcut-settings"]]

\* C17: at most one settings hide timer is pending at any moment, and a run of hide
\* requests less than 200 ms apart causes exactly one hide, 200 ms after the last of
\* them: while a hide request is outstanding, either its timer is the only one pending,
\* due 200 ms after that request, and the run has hidden nothing yet, or no timer is
\* pending and the run has hidden the window once, 200 ms after its last request.
C17_OneTimerOneHide ==
    /\ Len(hideTimers) <= 1
    /\ controlLog.outstanding =>
          \/ /\ Len(hideTimers) = 1
             /\ hideTimers[1].win = windowPool["settings"]
             /\ hideTimers[1].remaining = 200 - controlLog.sinceRequest
             /\ controlLog.hides = 0
          \/ /\ hideTimers = <<>>
             /\ controlLog.hides = 1
             /\ controlLog.hideDelay["settings"] = 200
             /\ controlLog.sinceRequest >= 200
             /\ ~visible[windowPool["settings"]]

\* Two or more hide requests, each while the previous one's timer was pending, ended
\* in one hide of the shown settings window
C17_Witness ==
    /\ controlLog.outstanding /\ controlLog.burst = 2
    /\ hideTimers = <<>> /\ controlLog.hides = 1
    /\ poolLive("settings") /\ ~visible[windowPool["settings"]]
    /\ bounds[windowPool["settings"]].y # 0

\* A hide request arrived while the previous one's timer was pending
Control_TimerReplaced ==
    /\ controlLog.burst = 2 /\ controlLog.sinceRequest = 0
    /\ Len(hideTimers) = 1 /\ hideTimers[1].remaining = 200

\* C18: a hide request that arrives while the settings window is pinned (its
\* __lockedByButton flag is set) starts no hide timer and does not hide the window.
C18_LockedSuppressesHide ==
    (controlLog.outstanding /\ controlLog.lockedAtRequest) =>
        /\ hideTimers = <<>>
        /\ controlLog.hides = 0
        /\ visible[windowPool["settings"]]

\* What the code does: the flag is written and never read; a hide request that arrives
\* while it is set clears it and arms the timer like any other.
Control_LockIgnored ==
    (controlLog.outstanding /\ controlLog.lockedAtRequest) =>
        /\ ~lockedByButton[windowPool["settings"]]
        /\ \/ Len(hideTimers) = 1 /\ controlLog.hides = 0
           \/ hideTimers = <<>> /\ controlLog.hides = 1 /\ ~visible[windowPool["settings"]]

\* The pinned settings window was hidden by a hide request's timer
Control_PinnedHidden ==
    /\ controlLog.outstanding /\ controlLog.lockedAtRequest /\ controlLog.hides = 1
    /\ poolLive("settings") /\ ~visible[windowPool["settings"]]

\* A pool window is being shown: it fades in after a show request (ask), or it is the
\* shown shortcut-settings or settings popover
FadingIn(h) == fadeTask[h].active /\ fadeTask[h].to = 1 /\ ~isDestroyed(h)

PoolHandles == {h \in Handles : ~isDestroyed(h) /\ \E n \in WindowNames : windowPool[n] = h}

\* C19: while a pool window is being shown through a visibility request every other
\* pool window ignores mouse events, and when no window is being shown every pool
\* window accepts them.
C19_MouseIsolation ==
    /\ \A w \in PoolHandles : FadingIn(w) => \A h \in PoolHandles \ {w} : ignoreMouse[h]
    /\ (\A w \in PoolHandles : ~FadingIn(w)) => \A h \in PoolHandles : ~ignoreMouse[h]

\* What the code does: the other pool windows ignore mouse events exactly while the
\* shortcut-settings window is visible, whatever else is being shown.
Control_IsolationFollowsShortcut ==
    poolLive("shortcut-settings") =>
       \A h \in PoolHandles \ {windowPool["shortcut-settings"]} :
          ignoreMouse[h] = visible[windowPool["shortcut-settings"]]

\* ask fades in while listen accepts mouse events
Control_ShownWithoutIsolation ==
    /\ FadingIn(windowPool["ask"]) /\ poolLive("listen") /\ ~ignoreMouse[windowPool["listen"]]

\* shortcut-settings is shown, nothing is fading, and the header ignores mouse events
Control_IsolationOutlastsShow ==
    /\ \A w \in PoolHandles : ~FadingIn(w)
    /\ visible[windowPool["shortcut-settings"]] /\ ignoreMouse[windowPool["header"]]

(***************************************************************************)
(* Focus reassertion (SpecFocus): the listeners createWindows() installs   *)
(* on the header, powerMonitor, app and screen, restoreFocusIfNeeded, the  *)
(* 'focus' listener of a recreated header, and setAggressiveFocusMode.     *)
(* The header is alive and visible throughout.  A header recreated after a *)
(* crash (closedHandler is set) has only the listeners of                  *)
(* setupHeaderWindowEvents; those of createWindows() refer to the          *)
(* destroyed original, whose methods throw.                                *)
(***************************************************************************)
shouldMaintainFocus == TRUE

\* A window alive outside the pool (left behind by recreateWindow), which can hold focus
StrayHandle == 4

FocusEvents == {"blur", "resume", "unlock-screen", "activate"}

headerIsOriginal == poolLive("header") /\ ~closedHandler[windowPool["header"]]

\* The header the listeners of createWindows() close over (const header): the one
\* constructed there, which has no 'closed' listener; NoHandle once it is destroyed
createdHeader ==
    LET made == {h \in Handles : /\ winName[h] = "header" /\ ~closedHandler[h]
                                 /\ winState[h] \in {"live", "closing"}}
    IN  IF made = {} THEN NoHandle ELSE CHOOSE h \in made : TRUE

\* Bookkeeping of a listener that reads createdHeader: it throws on a destroyed
\* header, and operates on a stale one when the pool names another header
listenerLog(log, runs) ==
    [log EXCEPT !.threw = @ \/ (runs /\ createdHeader = NoHandle),
                !.stale = @ \/ (runs /\ createdHeader \notin {NoHandle, windowPool["header"]})]

\* isOtherAppActive: a window is focused and it is not in the pool
isOtherAppActive ==
    focusedWindow # NoHandle /\ \A n \in WindowNames : windowPool[n] # focusedWindow

\* restoreFocusIfNeeded(): the timer is cleared and armed anew (100 ms)
restoreFocusIfNeeded(off, cause) ==
    [pending |-> TRUE, off |-> off /\ ~aggressiveFocusMode, cause |-> cause]

setAggressiveFocusMode(enabled) ==
    /\ aggressiveFocusMode' = enabled
    /\ UNCHANGED <<focusedWindow, focusChecks, focusRestoreTimer, focusLog,
                   poolVars, crashVars, layoutVars, motionVars, askVars,
                   displayVars, controlVars, shutdownVars, stateVars, engineVars, serviceVars>>

\* changeAllWindowsVisibility(windowPool, targetVisibility); targetVisibility is
\* "true", "false" or "undefined" (a toggle).  With the header visible the names of
\* the visible live windows are remembered and these windows are hidden; with the
\* header hidden the remembered windows that are alive are shown (showInactive).  A
\* hidden window loses the focus.  header.isVisible() throws for a destroyed header.
TargetVisibilities == {"true", "false", "undefined"}

\* Names of the pool windows on screen
VisibleNames == {n \in WindowNames : poolLive(n) /\ visible[windowPool[n]]}

\* A plausible slip: the header is hidden without being remembered.
rememberedWindowsNoHeader == VisibleNames \ {"header"}

\* What the hide remembers in lastVisibleWindows: every window that is alive and
\* visible, the header included
rememberedWindows == VisibleNames

changeAllWindowsVisibility(targetVisibility) ==
    LET header == windowPool["header"]
        nowVisible == VisibleNames
        requested == [toggleLog EXCEPT !.request = targetVisibility, !.tick = ~@]
        returns == \/ header = NoHandle
                   \/ isDestroyed(header)
                   \/ targetVisibility = "true" /\ visible[header]
                   \/ targetVisibility = "false" /\ ~visible[header]
    IN
    /\ IF returns
         THEN /\ toggleLog' = requested
              /\ UNCHANGED <<visible, focusedWindow, lastVisibleWindows>>
         ELSE IF visible[header]
           THEN /\ lastVisibleWindows' = rememberedWindows
                /\ visible' = [h \in Handles |->
                       IF \E n \in nowVisible : windowPool[n] = h THEN FALSE ELSE visible[h]]
                /\ focusedWindow' =
                       IF \E n \in nowVisible : windowPool[n] = focusedWindow
                         THEN NoHandle ELSE focusedWindow
                /\ toggleLog' = [requested EXCEPT !.phase = "hidden", !.atHide = nowVisible]
           ELSE /\ visible' = [h \in Handles |->
                       IF \E n \in lastVisibleWindows : poolLive(n) /\ windowPool[n] = h
                         THEN TRUE ELSE visible[h]]
                /\ toggleLog' = [requested EXCEPT
                       !.phase = IF @ = "hidden" THEN "shown" ELSE "none"]
                /\ UNCHANGED <<focusedWindow, lastVisibleWindows>>
    /\ UNCHANGED <<aggressiveFocusMode, focusChecks, focusRestoreTimer, focusLog,
                   resizable, fadeTask, boundsTask, lastRequest, motionRequests,
                   poolVars, crashVars, layoutVars, askVars, displayVars, controlVars,
                   shutdownVars, stateVars, engineVars, mindVars, videoVars>>

\* The user or the system moves the focus to window `to` (NoHandle: to another
\* application).  The header's 'blur' listener arms a 500 ms timer when the header is
\* visible and always on top (it is, since creation); the 'focus' listener of the
\* original header does nothing, that of a recreated header re-applies always-on-top
\* when the mode is on.
FocusMoves(to) ==
    LET header == createdHeader IN
    /\ to # focusedWindow
    /\ to # NoHandle => ~isDestroyed(to) /\ visible[to]
    /\ focusedWindow' = to
    /\ focusChecks' =
          IF focusedWindow = header /\ header # NoHandle /\ visible[header]
            THEN focusChecks \cup {[kind |-> "blur", off |-> ~aggressiveFocusMode]}
            ELSE focusChecks
    /\ focusLog' = [focusLog EXCEPT !.reasserted = FALSE]
    /\ UNCHANGED <<aggressiveFocusMode, focusRestoreTimer,
                   poolVars, crashVars, layoutVars, motionVars, askVars,
                   displayVars, controlVars, shutdownVars, stateVars, engineVars, serviceVars>>

\* powerMonitor 'resume', powerMonitor 'unlock-screen' (win32) and app 'activate'
\* arm a timer (1000, 500, 100 ms); 'activate' only when the header is visible.
SystemEvent(kind) ==
    /\ focusChecks' =
          IF kind = "activate" /\ ~(createdHeader # NoHandle /\ visible[createdHeader])
            THEN focusChecks
            ELSE focusChecks \cup {[kind |-> kind, off |-> ~aggressiveFocusMode]}
    /\ focusLog' = listenerLog(focusLog, kind = "activate")
    /\ UNCHANGED <<aggressiveFocusMode, focusedWindow, focusRestoreTimer,
                   poolVars, crashVars, layoutVars, motionVars, askVars,
                   displayVars, controlVars, shutdownVars, stateVars, engineVars, serviceVars>>

\* screen 'display-metrics-changed' calls restoreFocusIfNeeded() at once
DisplayMetricsChanged ==
    /\ focusRestoreTimer' =
          IF createdHeader # NoHandle /\ visible[createdHeader]
            THEN restoreFocusIfNeeded(TRUE, "display-metrics-changed")
            ELSE focusRestoreTimer
    /\ focusLog' = listenerLog(focusLog, TRUE)
    /\ UNCHANGED <<aggressiveFocusMode, focusedWindow, focusChecks,
                   poolVars, crashVars, layoutVars, motionVars, askVars,
                   displayVars, controlVars, shutdownVars, stateVars, engineVars, serviceVars>>

\* The timer armed by an event fires and calls restoreFocusIfNeeded(): after a blur
\* when no window of the pool is focused, else when the header is visible and alive.
FocusCheckFires(c) ==
    LET header == createdHeader
        proceeds ==
           IF c.kind = "blur"
             THEN focusedWindow = NoHandle \/ isOtherAppActive
             ELSE c.kind = "activate" \/ (header # NoHandle /\ visible[header])
    IN
    /\ c \in focusChecks
    /\ focusChecks' = focusChecks \ {c}
    /\ focusRestoreTimer' = IF proceeds THEN restoreFocusIfNeeded(c.off, c.kind)
                                        ELSE focusRestoreTimer
    /\ focusLog' = listenerLog(focusLog, c.kind \in {"resume", "unlock-screen"})
    /\ UNCHANGED <<aggressiveFocusMode, focusedWindow,
                   poolVars, crashVars, layoutVars, motionVars, askVars,
                   displayVars, controlVars, shutdownVars, stateVars, engineVars, serviceVars>>

\* The timer of restoreFocusIfNeeded fires: unless a window outside the pool is
\* focused, the header is made always-on-top, moved to the top and focused.
FocusRestoreTimerFires ==
    LET header == createdHeader
        wanted == /\ header # NoHandle /\ focusedWindow # header /\ visible[header]
                  /\ shouldMaintainFocus
        reasserts == wanted /\ ~isOtherAppActive
    IN
    /\ focusRestoreTimer.pending
    /\ focusRestoreTimer' = NoFocusTimer
    /\ focusedWindow' = IF reasserts THEN header ELSE focusedWindow
    /\ focusLog' =
          IF reasserts
            THEN [reasserted |-> TRUE,
                  contested |-> focusLog.contested
                                   \/ (focusRestoreTimer.off /\ ~aggressiveFocusMode),
                  cause |-> IF focusRestoreTimer.off /\ ~aggressiveFocusMode
                              THEN focusRestoreTimer.cause ELSE focusLog.cause,
                  threw |-> focusLog.threw,
                  stale |-> focusLog.stale \/ header # windowPool["header"]]
            ELSE [focusLog EXCEPT !.reasserted = FALSE]
    /\ UNCHANGED <<aggressiveFocusMode, focusChecks,
                   poolVars, crashVars, layoutVars, motionVars, askVars,
                   displayVars, controlVars, shutdownVars, stateVars, engineVars, serviceVars>>

\* After createWindows() in state 'main', or after the header was recreated: header
\* and ask visible, a stray window alive outside the pool, the header focused.
InitFocus ==
    /\ windowPool = LayoutHandle
    /\ winState = [h \in Handles |-> IF h \in 1..3 \/ h = StrayHandle THEN "live" ELSE "none"]
    /\ winName = [h \in Handles |->
          CASE h = 1 -> "header" [] h = 2 -> "ask" [] h = 3 -> "listen"
            [] h = StrayHandle -> "ask" [] OTHER -> "none"]
    /\ \E recreated \in BOOLEAN : closedHandler = [h \in Handles |-> h = 1 /\ recreated]
    /\ currentHeaderState = "main"
    /\ windowsCreated = TRUE
    /\ bounds = [h \in Handles |->
          CASE h = 1 -> [x |-> 784, y |-> 21, width |-> 353, height |-> 47]
            [] h = 2 -> [x |-> 660, y |-> 76, width |-> 600, height |-> 100]
            [] h = 3 -> [x |-> 0, y |-> 0, width |-> 400, height |-> 100]
            [] h = StrayHandle -> [x |-> 0, y |-> 0, width |-> 600, height |-> 100]
            [] OTHER -> NoBounds]
    /\ layoutRequest = NoRequest
    /\ layoutResult = NoResult
    /\ visible = [h \in Handles |-> h \in {1, 2, StrayHandle}]
    /\ resizable = [h \in Handles |-> FALSE]
    /\ fadeTask = [h \in Handles |-> NoFade]
    /\ boundsTask = [h \in Handles |-> NoMove]
    /\ lastRequest = [n \in LayoutNames |-> "none"]
    /\ motionRequests = 0
    /\ CrashIdle /\ AskIdle /\ DisplayIdle /\ ControlIdle /\ ShutdownIdle /\ StateIdle /\ EngineIdle /\ ServiceIdle
    /\ aggressiveFocusMode = TRUE
    /\ focusedWindow = 1
    /\ focusChecks = {}
    /\ focusRestoreTimer = NoFocusTimer
    /\ focusLog = NoFocusLog

NextFocus ==
    \/ \E enabled \in BOOLEAN : setAggressiveFocusMode(enabled)
    \/ \E to \in {NoHandle, 1, 2, StrayHandle} : FocusMoves(to)
    \/ \E kind \in FocusEvents \ {"blur"} : SystemEvent(kind)
    \/ DisplayMetricsChanged
    \/ \E c \in [kind : FocusEvents, off : BOOLEAN] : FocusCheckFires(c)
    \/ FocusRestoreTimerFires

SpecFocus == InitFocus /\ [][NextFocus]_vars

\* SpecRecovery: the same listeners with the mode left on, while all windows are
\* hidden and shown again (window:requestToggleAllWindowsVisibility)
NextRecovery ==
    \/ \E to \in {NoHandle, 1, 2} : FocusMoves(to)
    \/ \E kind \in FocusEvents \ {"blur"} : SystemEvent(kind)
    \/ DisplayMetricsChanged
    \/ \E c \in [kind : FocusEvents, off : {FALSE}] : FocusCheckFires(c)
    \/ FocusRestoreTimerFires
    \/ \E targetVisibility \in TargetVisibilities : changeAllWindowsVisibility(targetVisibility)

SpecRecovery == InitFocus /\ [][NextRecovery]_vars

(***************************************************************************)
(* Claims about focus reassertion (SpecFocus)                              *)
(***************************************************************************)
\* C20: with aggressive focus mode off, no blur, focus, resume, unlock-screen,
\* display-metrics-changed or activate event leads the window manager to re-apply
\* always-on-top to the header, move it to the top or focus it.
C20_NeverContested == ~focusLog.contested

\* What the code does: only the 'focus' listener of a recreated header reads the
\* mode; for the original header every reassertion goes through
\* restoreFocusIfNeeded, which tests shouldMaintainFocus alone, and a recreated
\* header is never reasserted.
Focus_OnlyOriginalContested == focusLog.contested => headerIsOriginal

\* The header lost focus to another application with the mode off and was focused again
Focus_ContestedAfterBlur ==
    /\ focusLog.contested /\ focusLog.cause = "blur" /\ focusLog.reasserted
    /\ ~aggressiveFocusMode /\ focusedWindow = windowPool["header"]

\* In this step the timer of restoreFocusIfNeeded, armed 500 ms after a blur, fires
\* while window w (NoHandle: a window of another application) holds the focus
BlurRestoreFiresWith(w) ==
    /\ focusRestoreTimer.pending /\ focusRestoreTimer.cause = "blur"
    /\ ~focusRestoreTimer'.pending
    /\ focusedWindow = w

\* C21: after a blur and its settle delay, when the focus is with another
\* application (no window of the pool is focused), the header is left alone: it is
\* not focused again.
C21_ExternalFocusRespected ==
    [][BlurRestoreFiresWith(NoHandle) => focusedWindow' = NoHandle]_vars

\* What the code does: getFocusedWindow() is null when another application has the
\* focus, which isOtherAppActive takes for "nobody else is active": the header is
\* focused again.  Only a window of this application outside the pool is respected.
Focus_ExternalContestedStrayRespected ==
    [][/\ BlurRestoreFiresWith(NoHandle) =>
             focusedWindow' = windowPool["header"] /\ focusLog'.reasserted
       /\ BlurRestoreFiresWith(StrayHandle) =>
             focusedWindow' = StrayHandle /\ ~focusLog'.reasserted]_vars

\* The header took the focus back from another application after a blur
Focus_TakenBackFromExternal ==
    /\ focusLog.reasserted /\ focusedWindow = windowPool["header"]
    /\ ~focusRestoreTimer.pending /\ focusChecks = {}
    /\ aggressiveFocusMode /\ ~focusLog.contested

(***************************************************************************)
(* Claims about calls on missing or destroyed windows (SpecLayout)         *)
(***************************************************************************)
\* C22: calculateFeatureWindowLayout called while the header is missing from the pool
\* or destroyed returns the empty layout and does not throw.
C22_DeadHeaderEmptyLayout ==
    (layoutRequest.made /\ layoutRequest.override = NoBounds /\ ~poolLive("header")) =>
        (~layoutResult.threw /\ layoutResult.placed = {})

\* What the code does: a header missing from the pool gives the empty layout; a
\* destroyed header still in the pool makes header.getBounds() throw.
Layout_DeadHeaderThrows ==
    (layoutRequest.made /\ layoutRequest.override = NoBounds /\ ~poolLive("header")) =>
        /\ layoutResult.placed = {}
        /\ layoutResult.threw <=> windowPool["header"] # NoHandle

\* The layout was asked for with a destroyed header in the pool and ask alive
Layout_DestroyedHeaderCalled ==
    /\ layoutRequest.made /\ layoutRequest.override = NoBounds
    /\ windowPool["header"] # NoHandle /\ isDestroyed(windowPool["header"])
    /\ "ask" \in layoutRequest.visibility /\ poolLive("ask")
    /\ layoutResult.threw

(***************************************************************************)
(* Host-process errors and graceful shutdown (SpecShutdown):               *)
(* setupCrashHandling's 'uncaughtException' and 'unhandledRejection'       *)
(* listeners, attemptGracefulShutdown and closeAllWindows.  Each await of  *)
(* attemptGracefulShutdown is a position of shutdownPc.  A window in       *)
(* closeBlocked never emits 'closed' (its close is held up by the page).   *)
(* The crash report is taken as written when saveCrashReport is called.    *)
(***************************************************************************)
\* Bound on the uncaught exceptions and unhandled rejections of one run
MaxHostErrors == 3

hostErrors == shutdownLog.errors["uncaught-exception"] + shutdownLog.errors["unhandled-rejection"]

\* saveCrashReport(type, error)
saveCrashReport(type) == [crashReports EXCEPT ![type] = @ + 1]

\* A plausible slip: the isShuttingDown guard is missing.
alreadyShuttingDownIgnored == FALSE

\* The guard of attemptGracefulShutdown
alreadyShuttingDown == isShuttingDown

logStep(step) == [shutdownLog EXCEPT !.steps = Append(@, step)]

\* closeAllWindows() up to its await: every pool window that is not destroyed gets a
\* 'closed' listener and close()
closeAllWindows(log) ==
    LET closing == {h \in Handles : ~isDestroyed(h) /\ \E n \in WindowNames : windowPool[n] = h}
    IN  /\ closePromises' = closing
        /\ winState' = [h \in Handles |-> IF h \in closing THEN "closing" ELSE winState[h]]
        /\ shutdownPc' = "closeAllWindows"
        /\ shutdownLog' = [log EXCEPT !.steps = Append(@, "closeAllWindows")]
        /\ UNCHANGED <<windowPool, winName, closedHandler>>

\* process 'uncaughtException': saveCrashReport, then attemptGracefulShutdown up to
\* its first await (saveEmergencyState)
UncaughtException ==
    /\ shutdownPc # "exited"
    /\ hostErrors < MaxHostErrors
    /\ crashReports' = saveCrashReport("uncaught-exception")
    /\ IF alreadyShuttingDown
         THEN /\ shutdownLog' = [shutdownLog EXCEPT !.errors["uncaught-exception"] = @ + 1]
              /\ UNCHANGED <<isShuttingDown, shutdownPc>>
         ELSE /\ isShuttingDown' = TRUE
              /\ shutdownPc' = "saveEmergencyState"
              /\ shutdownLog' = [steps |-> Append(shutdownLog.steps, "saveEmergencyState"),
                                 errors |-> [shutdownLog.errors EXCEPT
                                               !["uncaught-exception"] = @ + 1]]
    /\ UNCHANGED <<closePromises, closeBlocked, isRecording, poolVars,
                   recoveryAttempts, recoveryTimers, crashHandlers, crashDialogs, crashLog,
                   crashSignals, layoutVars, motionVars, askVars,
                   displayVars, controlVars, focusVars, stateVars, engineVars, serviceVars>>

\* process 'unhandledRejection': saveCrashReport only
UnhandledRejection ==
    /\ shutdownPc # "exited"
    /\ hostErrors < MaxHostErrors
    /\ crashReports' = saveCrashReport("unhandled-rejection")
    /\ shutdownLog' = [shutdownLog EXCEPT !.errors["unhandled-rejection"] = @ + 1]
    /\ UNCHANGED <<shutdownPc, closePromises, closeBlocked, isRecording, poolVars, crashVars,
                   layoutVars, motionVars, askVars, displayVars, controlVars, focusVars, stateVars, engineVars, serviceVars>>

\* saveEmergencyState() resolves (it catches its own errors); the shutdown goes on to
\* stopLearningSession() when a session is recording, else to closeAllWindows()
SaveEmergencyStateReturns ==
    /\ shutdownPc = "saveEmergencyState"
    /\ IF isRecording
         THEN /\ shutdownPc' = "stopLearningSession"
              /\ shutdownLog' = logStep("stopLearningSession")
              /\ UNCHANGED <<closePromises, poolVars>>
         ELSE /\ closeAllWindows(shutdownLog)
              /\ UNCHANGED <<currentHeaderState, windowsCreated>>
    /\ UNCHANGED <<closeBlocked, isRecording, crashReports, crashVars,
                   layoutVars, motionVars, askVars, displayVars, controlVars, focusVars, stateVars, engineVars, serviceVars>>

\* stopLearningSession() resolves, or rejects: the catch of attemptGracefulShutdown
\* calls process.exit(1)
StopLearningSessionReturns(ok) ==
    /\ shutdownPc = "stopLearningSession"
    /\ IF ok
         THEN /\ closeAllWindows(shutdownLog)
              /\ isRecording' = FALSE
              /\ UNCHANGED <<currentHeaderState, windowsCreated>>
         ELSE /\ shutdownPc' = "exited"
              /\ shutdownLog' = logStep("exit")
              /\ UNCHANGED <<closePromises, isRecording, poolVars>>
    /\ UNCHANGED <<closeBlocked, crashReports, crashVars,
                   layoutVars, motionVars, askVars, displayVars, controlVars, focusVars, stateVars, engineVars, serviceVars>>

\* A window on which close() was called emits 'closed'
ClosedEmitted(h) ==
    /\ shutdownPc # "exited"
    /\ winState[h] = "closing"
    /\ h \notin closeBlocked
    /\ SetPool(emitClosed(PoolState, h))
    /\ closePromises' = closePromises \ {h}
    /\ UNCHANGED <<currentHeaderState, windowsCreated, shutdownPc, closeBlocked, isRecording,
                   crashReports, shutdownLog, crashVars,
                   layoutVars, motionVars, askVars, displayVars, controlVars, focusVars, stateVars, engineVars, serviceVars>>

\* Promise.all(closePromises) resolves: windowPool.clear(), closeAllWindows() returns
\* and attemptGracefulShutdown arms the 5000 ms exit timer
CloseAllWindowsReturns ==
    /\ shutdownPc = "closeAllWindows"
    /\ closePromises = {}
    /\ SetPool([PoolState EXCEPT !.pool = [n \in WindowNames |-> NoHandle]])
    /\ shutdownPc' = "exitScheduled"
    /\ shutdownLog' = logStep("scheduleExit")
    /\ UNCHANGED <<currentHeaderState, windowsCreated, closePromises, closeBlocked, isRecording,
                   crashReports, crashVars,
                   layoutVars, motionVars, askVars, displayVars, controlVars, focusVars, stateVars, engineVars, serviceVars>>

\* The exit timer fires: process.exit(1)
ExitTimerFires ==
    /\ shutdownPc = "exitScheduled"
    /\ shutdownPc' = "exited"
    /\ shutdownLog' = logStep("exit")
    /\ UNCHANGED <<closePromises, closeBlocked, isRecording, crashReports, poolVars, crashVars,
                   layoutVars, motionVars, askVars, displayVars, controlVars, focusVars, stateVars, engineVars, serviceVars>>

\* The application runs with header, ask and listen; some windows may be unable to close
InitShutdown ==
    /\ windowPool = LayoutHandle
    /\ winState = [h \in Handles |-> IF h \in 1..3 THEN "live" ELSE "none"]
    /\ winName = [h \in Handles |->
          CASE h = 1 -> "header" [] h = 2 -> "ask" [] h = 3 -> "listen" [] OTHER -> "none"]
    /\ closedHandler = [h \in Handles |-> FALSE]
    /\ currentHeaderState = "main"
    /\ windowsCreated = TRUE
    /\ LayoutIdle /\ CrashIdle /\ MotionIdle /\ AskIdle
    /\ DisplayIdle /\ ControlIdle /\ FocusIdle /\ StateIdle /\ EngineIdle /\ ServiceIdle
    /\ shutdownPc = "idle"
    /\ closePromises = {}
    /\ closeBlocked \in SUBSET (1..3)
    /\ isRecording \in BOOLEAN
    /\ crashReports = [t \in ReportTypes |-> 0]
    /\ shutdownLog = NoShutdownLog

NextShutdown ==
    \/ UncaughtException
    \/ UnhandledRejection
    \/ SaveEmergencyStateReturns
    \/ \E ok \in BOOLEAN : StopLearningSessionReturns(ok)
    \/ \E h \in Handles : ClosedEmitted(h)
    \/ CloseAllWindowsReturns
    \/ ExitTimerFires

SpecShutdown == InitShutdown /\ [][NextShutdown]_vars

(***************************************************************************)
(* Claims about the graceful shutdown (SpecShutdown)                       *)
(***************************************************************************)
\* The order of the steps of one shutdown
StepRank(step) ==
    CASE step = "saveEmergencyState"  -> 1
      [] step = "stopLearningSession" -> 2
      [] step = "closeAllWindows"     -> 3
      [] step = "scheduleExit"        -> 4
      [] step = "exit"                -> 5

HasStep(step) == \E i \in 1..Len(shutdownLog.steps) : shutdownLog.steps[i] = step

Shutdown_RejectionsOnly ==
    /\ crashReports["unhandled-rejection"] = MaxHostErrors
    /\ ~isShuttingDown /\ shutdownPc = "idle"

\* Every step of the shutdown that can be taken is taken in the end: pending promises
\* resolve, timers fire, and a window that can close emits 'closed'.
SpecShutdownLive ==
    /\ SpecShutdown
    /\ WF_vars(SaveEmergencyStateReturns)
    /\ WF_vars(\E ok \in BOOLEAN : StopLearningSessionReturns(ok))
    /\ WF_vars(\E h \in Handles : ClosedEmitted(h))
    /\ WF_vars(CloseAllWindowsReturns)
    /\ WF_vars(ExitTimerFires)

\* C24: after an uncaught exception the process exits in the end, also when a window
\* never emits 'closed'.
C24_EventuallyExits == isShuttingDown ~> (shutdownPc = "exited")

\* What the code does: the exit timer is armed after closeAllWindows() has returned, so
\* the process exits when every window that was asked to close can close.
Shutdown_ExitsWhenWindowsClose ==
    (isShuttingDown /\ closeBlocked = {}) ~> (shutdownPc = "exited")

\* The shutdown waits for a window that never closes; no exit timer is armed
Shutdown_StuckClosing ==
    /\ shutdownPc = "closeAllWindows"
    /\ closePromises # {} /\ closePromises \subseteq closeBlocked
    /\ ~HasStep("scheduleExit")

\* With a window that never closes the process never exits
Shutdown_BlockedNeverExits ==
    (closeBlocked # {} /\ ~isRecording) => shutdownPc # "exited"

(***************************************************************************)
(* Persisted application state (SpecState): saveState() with its two       *)
(* awaits (fs.copyFile of the primary file onto the backup, fs.writeFile   *)
(* of the primary file) and loadState() at start-up.  writeFile truncates  *)
(* the file when it opens it and the file is whole when the write has      *)
(* succeeded; a failed write leaves what was written so far.  copyFile     *)
(* copies the primary file as it is and fails when it is missing.  Each    *)
(* invocation may be started while another is in flight, as the timer,     *)
(* the quit handler and the other callers do not wait for one another.     *)
(***************************************************************************)
InFlight == {k \in 1..MaxSaves : saveCalls[k] \in {"copyFile", "writeFile", "writing"}}

restOfState == <<poolVars, crashVars, layoutVars, motionVars, askVars,
                 displayVars, controlVars, focusVars, shutdownVars, engineVars, serviceVars>>

\* saveState() up to its first await: the k-th invocation serialises the state and
\* calls fs.copyFile(stateFile, backupFile)
saveState ==
    /\ \E k \in 1..MaxSaves : saveCalls[k] = "idle"
    /\ LET k == CHOOSE k \in 1..MaxSaves :
                   saveCalls[k] = "idle" /\ \A j \in 1..(k - 1) : saveCalls[j] # "idle"
       IN  /\ saveCalls' = [saveCalls EXCEPT ![k] = "copyFile"]
           /\ stateLog' = [stateLog EXCEPT !.overlapped = @ \/ InFlight # {}]
    /\ UNCHANGED <<stateFile, backupFile, restOfState>>

\* fs.copyFile returns (it rejects when the primary file is missing, which saveState
\* ignores); saveState calls fs.writeFile(stateFile, stateJson)
CopyFileReturns(k) ==
    /\ saveCalls[k] = "copyFile"
    /\ backupFile' = IF stateFile.exists THEN stateFile ELSE backupFile
    /\ saveCalls' = [saveCalls EXCEPT ![k] = "writeFile"]
    /\ UNCHANGED <<stateFile, stateLog, restOfState>>

\* fs.writeFile opens the primary file, truncating it, or fails to open it
WriteFileOpens(k, ok) ==
    /\ saveCalls[k] = "writeFile"
    /\ IF ok
         THEN /\ stateFile' = [exists |-> TRUE, complete |-> FALSE, v |-> k]
              /\ saveCalls' = [saveCalls EXCEPT ![k] = "writing"]
              /\ UNCHANGED stateLog
         ELSE /\ saveCalls' = [saveCalls EXCEPT ![k] = "done"]
              /\ stateLog' = [stateLog EXCEPT !.failed = TRUE]
              /\ UNCHANGED stateFile
    /\ UNCHANGED <<backupFile, restOfState>>

\* fs.writeFile resolves with the file whole, or rejects with the file cut short
WriteFileReturns(k, ok) ==
    /\ saveCalls[k] = "writing"
    /\ saveCalls' = [saveCalls EXCEPT ![k] = "done"]
    /\ IF ok
         THEN /\ stateFile' = [exists |-> TRUE, complete |-> TRUE, v |-> k]
              /\ stateLog' = [stateLog EXCEPT !.firstSaved = TRUE]
         ELSE /\ stateLog' = [stateLog EXCEPT !.failed = TRUE]
              /\ UNCHANGED stateFile
    /\ UNCHANGED <<backupFile, restOfState>>

\* The application is started again (saves in flight died with the old process) and
\* initialize() runs loadState(): the primary file when it parses, else the backup
\* file when it parses, followed by saveState(), else the default state.
initialize ==
    LET died == [k \in 1..MaxSaves |-> IF k \in InFlight THEN "dead" ELSE saveCalls[k]]
        fromBackup == ~stateFile.complete /\ backupFile.complete
        next == CHOOSE k \in 1..MaxSaves :
                    died[k] = "idle" /\ \A j \in 1..(k - 1) : died[j] # "idle"
    IN
    /\ fromBackup => \E k \in 1..MaxSaves : saveCalls[k] = "idle"
    /\ saveCalls' = IF fromBackup THEN [died EXCEPT ![next] = "copyFile"] ELSE died
    /\ stateLog' = [stateLog EXCEPT
          !.failed = @ \/ \E k \in InFlight : saveCalls[k] = "writing",
          !.loadedFrom = IF stateFile.complete THEN "main"
                         ELSE IF backupFile.complete THEN "backup" ELSE "default",
          !.restore = IF fromBackup THEN next ELSE 0]
    /\ UNCHANGED <<stateFile, backupFile, restOfState>>

InitState ==
    /\ PoolIdle /\ CrashIdle /\ LayoutIdle /\ MotionIdle /\ AskIdle
    /\ DisplayIdle /\ ControlIdle /\ FocusIdle /\ ShutdownIdle /\ StateIdle /\ EngineIdle /\ ServiceIdle

NextState ==
    \/ saveState
    \/ \E k \in 1..MaxSaves : CopyFileReturns(k)
    \/ \E k \in 1..MaxSaves, ok \in BOOLEAN : WriteFileOpens(k, ok)
    \/ \E k \in 1..MaxSaves, ok \in BOOLEAN : WriteFileReturns(k, ok)
    \/ initialize

SpecState == InitState /\ [][NextState]_vars

(***************************************************************************)
(* Claims about the persisted state (SpecState)                            *)
(***************************************************************************)
\* C25: once a save has succeeded, at every moment the primary file or the backup
\* file holds a whole saved state, whatever writes of the primary file fail or are cut
\* short afterwards.
C25_OneFileIntact ==
    stateLog.firstSaved => (stateFile.complete \/ backupFile.complete)

\* What the code does: the backup is a copy of the primary file as the next save finds
\* it, so it is intact only as long as no write has failed and saves do not overlap.
State_IntactWhileNoFailure ==
    (stateLog.firstSaved /\ ~stateLog.failed /\ ~stateLog.overlapped) =>
        (stateFile.complete \/ backupFile.complete)

\* One save after a cut-short write, nothing overlapping: the cut-short primary file
\* has been copied onto the backup and neither file is whole
State_BothLostInSequence ==
    /\ stateLog.firstSaved /\ ~stateLog.overlapped /\ stateLog.loadedFrom = "none"
    /\ ~stateFile.complete /\ backupFile.exists /\ ~backupFile.complete

\* C26: saves are serialized: while one saveState() invocation is between its start
\* and the end of its write, no other invocation is.
C26_SavesSerialized == Cardinality(InFlight) <= 1

\* What the code does: an invocation runs alone only up to its first await; a second
\* one can copy the primary file while the first is writing it, which leaves a cut
\* copy in the backup although no write has failed.
State_OverlapCopiesPartial ==
    /\ ~stateLog.failed /\ stateLog.overlapped /\ stateLog.loadedFrom = "none"
    /\ backupFile.exists /\ ~backupFile.complete
    /\ \E k \in InFlight : saveCalls[k] = "writing"
    /\ \E k \in InFlight : saveCalls[k] = "writeFile"

\* Without overlap the steps of the invocations follow one another
State_StepsOfOneCallAtATime ==
    ~stateLog.overlapped => Cardinality(InFlight) <= 1

(***************************************************************************)
(* Claims about the completion callbacks of the motion engine (SpecMotion) *)
(***************************************************************************)
TimesFired(id) ==
    Cardinality({i \in 1..Len(callbackLog.fired) : callbackLog.fired[i] = id})

\* C27: when an animation is issued on a window while an animation of that window is
\* in flight, the callback of the first is never invoked and the callback of the
\* second is invoked exactly once: no callback of a superseded animation has been
\* invoked, none twice, and the second's has been invoked once as soon as its
\* animation is no longer in flight (unless it was superseded in turn or its
\* window was destroyed).
C27_OnlySecondCallback ==
    /\ \A id \in callbackLog.first : TimesFired(id) = 0
    /\ \A i \in 1..Len(callbackLog.fired) : TimesFired(callbackLog.fired[i]) = 1
    /\ \A c \in callbackLog.second :
          (c.id \notin callbackLog.first /\ winState[c.win] = "live") =>
              IF boundsTask[c.win].active /\ boundsTask[c.win].id = c.id
                THEN TimesFired(c.id) = 0
                ELSE TimesFired(c.id) = 1

\* A second window:adjustWindowHeight arrived while the first was animating, and its
\* callback, not the first's, has been invoked
C27_Witness ==
    \E c \in callbackLog.second :
       /\ winState[c.win] = "live" /\ ~isAnimating
       /\ TimesFired(c.id) = 1
       /\ \E id \in callbackLog.first : id < c.id /\ TimesFired(id) = 0

(***************************************************************************)
(* Claims about the delays of the recovery attempts (SpecPool)             *)
(***************************************************************************)
\* The recovery timers pending; a timer carries its delay and (bookkeeping) the
\* number of the attempt it schedules and what scheduled it
PendingRecoveryTimers == BagToSet(recoveryTimers)

\* C28: every scheduled recreation attempt number k is delayed by 1000 ms x k,
\* whether a crash signal scheduled it or a failed attempt did.
C28_LinearDelay ==
    \A t \in PendingRecoveryTimers : t.delay = 1000 * t.attempt

\* What the code does: the attempts a crash signal schedules are delayed by
\* 1000 ms x k, those a failed attempt schedules by 2000 ms whatever their number.
Crash_DelayLinearAfterCrashFlatAfterFailure ==
    \A t \in PendingRecoveryTimers :
        /\ t.attempt \in 1..maxRecoveryAttempts
        /\ t.delay = IF t.after = "crash" THEN 1000 * t.attempt ELSE 2000

\* The third attempt, scheduled by the failure of the second, waits 2000 ms
Crash_ThirdAttemptAfterFailure ==
    \E t \in PendingRecoveryTimers : t.attempt = 3 /\ t.after = "failure" /\ t.delay = 2000

(***************************************************************************)
(* Claims about the header's size (SpecMotion)                             *)
(***************************************************************************)
\* The header has the size that was asked for
headerHasSize(size) ==
    /\ bounds[windowPool["header"]].width = size.width
    /\ bounds[windowPool["header"]].height = size.height

\* C29: after any sequence of window:resizeHeaderWindow requests, including requests
\* that arrive while an animation is in flight, once no animation is in flight the
\* header has the size asked for by the most recent request.
C29_LatestHeaderSizeWins ==
    (poolLive("header") /\ ~isAnimating /\ callbackLog.asked # NoSize)
        => headerHasSize(callbackLog.asked)

\* What the code does: the most recent request decides the header's size when it
\* arrived while nothing was animating.
Motion_LatestUndroppedHeaderSizeWins ==
    (poolLive("header") /\ ~isAnimating /\ callbackLog.asked # NoSize /\ ~callbackLog.dropped)
        => headerHasSize(callbackLog.asked)

\* A request that arrived during an animation was dropped: all is settled and the
\* header still has another size than the one asked for last
Motion_HeaderRequestLost ==
    /\ poolLive("header") /\ ~isAnimating
    /\ callbackLog.asked # NoSize /\ callbackLog.dropped
    /\ ~headerHasSize(callbackLog.asked)

-----------------------------------------------------------------------------
(***************************************************************************)
(* SpecResize: calculateHeaderResize applied to a header whose bounds are  *)
(* drawn from HeaderBoundsSet (odd and even widths, an x left of the       *)
(* primary display) for requested sizes of odd and even width.  A call's   *)
(* result becomes the header's bounds, as at the end of the animation the  *)
(* window:resizeHeaderWindow handler starts; the bounds the call read and  *)
(* the size it was given are kept.                                         *)
(***************************************************************************)
\* Bound on the calls of one run
MaxResizes == 3

\* Sizes asked for: the header sizes, a wide one of even width and a narrow one of
\* odd width
ResizeSizes == HeaderSizes \cup {[width |-> 600, height |-> 60],
                                 [width |-> 275, height |-> 47]}

\* One window:resizeHeaderWindow request while nothing animates, to its end state
HeaderResize(size) ==
    /\ motionRequests < MaxResizes
    /\ motionRequests' = motionRequests + 1
    /\ IF ~poolLive("header")
         THEN UNCHANGED <<bounds, layoutRequest, callbackLog>>
         ELSE LET header == windowPool["header"]
                  newHeaderBounds == calculateHeaderResize(header, size.width, size.height)
              IN  /\ bounds' = [bounds EXCEPT ![header] = newHeaderBounds]
                  /\ layoutRequest' = [visibility |-> {}, override |-> bounds[header],
                                       made |-> TRUE]
                  /\ callbackLog' = [callbackLog EXCEPT !.asked = size]
    /\ UNCHANGED <<layoutResult, visible, resizable, fadeTask, boundsTask, lastRequest,
                   poolVars, crashVars, askVars, restExt>>

InitResize ==
    /\ windowPool = [n \in WindowNames |-> IF n = "header" THEN 1 ELSE NoHandle]
    /\ \E headerState \in {"live", "destroyed"} :
          winState = [h \in Handles |-> IF h = 1 THEN headerState ELSE "none"]
    /\ winName = [h \in Handles |-> IF h = 1 THEN "header" ELSE "none"]
    /\ closedHandler = [h \in Handles |-> FALSE]
    /\ currentHeaderState = "main"
    /\ windowsCreated = TRUE
    /\ \E hb \in HeaderBoundsSet :
          bounds = [h \in Handles |-> IF h = 1 THEN hb ELSE NoBounds]
    /\ layoutRequest = NoRequest
    /\ layoutResult = NoResult
    /\ CrashIdle /\ MotionIdle /\ AskIdle /\ ExtIdle

NextResize == \E size \in ResizeSizes : HeaderResize(size)

SpecResize == InitResize /\ [][NextResize]_vars

(***************************************************************************)
(* Claims about calculateHeaderResize (SpecResize)                         *)
(***************************************************************************)
\* Twice the horizontal centre of bounds b
centre2(b) == 2 * b.x + b.width

sameParity(a, b) == a % 2 = b % 2

\* C30: calculateHeaderResize returns bounds with the requested width and height and
\* the header's current y, and an x that is the nearest pixel to the one that keeps
\* the header's horizontal centre: the centre of the result is the current centre
\* when the current and the requested width have the same parity, and half a pixel
\* from it when they differ.
C30_HeaderResizeKeepsCentre ==
    (layoutRequest.made /\ poolLive("header")) =>
        LET current == layoutRequest.override
            result == bounds[windowPool["header"]]
            asked == callbackLog.asked
        IN  /\ result.width = asked.width
            /\ result.height = asked.height
            /\ result.y = current.y
            /\ centre2(result) - centre2(current) \in
                  IF sameParity(current.width, asked.width) THEN {0} ELSE {-1, 1}

\* A call that changed an odd width into an even one and moved the header's x
C30_Witness ==
    /\ layoutRequest.made /\ poolLive("header")
    /\ layoutRequest.override.width % 2 = 1
    /\ callbackLog.asked.width % 2 = 0
    /\ bounds[windowPool["header"]].x # layoutRequest.override.x
    /\ bounds[windowPool["header"]].x < 0

\* Math.round rounds a half up: when the parities differ the centre moves half a
\* pixel to the right, never to the left
Resize_HalfPixelRight ==
    (layoutRequest.made /\ poolLive("header")) =>
        centre2(bounds[windowPool["header"]]) - centre2(layoutRequest.override) \in {0, 1}

\* The other combinations of parities are exercised too
Resize_EvenToOdd ==
    layoutRequest.made /\ layoutRequest.override.width % 2 = 0
                       /\ callbackLog.asked.width % 2 = 1
Resize_OddToOdd ==
    layoutRequest.made /\ layoutRequest.override.width % 2 = 1
                       /\ callbackLog.asked.width % 2 = 1
                       /\ layoutRequest.override.width # callbackLog.asked.width
Resize_EvenToEven ==
    layoutRequest.made /\ layoutRequest.override.width % 2 = 0
                       /\ callbackLog.asked.width % 2 = 0
                       /\ layoutRequest.override.width # callbackLog.asked.width

(***************************************************************************)
(* Claims about focus recovery on a hidden or destroyed header             *)
(* (SpecRecovery)                                                          *)
(***************************************************************************)
\* In this step the timer of restoreFocusIfNeeded fires
RestoreTimerFiresNow == focusRestoreTimer.pending /\ ~focusRestoreTimer'.pending

\* C31: the recovery triggered by resume, unlock-screen, display-metrics-changed and
\* activate never focuses, raises or re-applies always-on-top to a header that is
\* hidden when the recovery acts, and performs no operation on a destroyed header.
C31_RecoveryGated ==
    [][/\ (RestoreTimerFiresNow /\ ~visible[windowPool["header"]])
              => (focusedWindow' = focusedWindow /\ ~focusLog'.reasserted)
       /\ ~focusLog'.threw]_vars

\* What the code does for a hidden header: restoreFocusIfNeeded tests isVisible()
\* when its timer fires, and leaves a hidden header alone.
Recovery_HiddenHeaderLeftAlone ==
    [][(RestoreTimerFiresNow /\ ~visible[windowPool["header"]])
          => (focusedWindow' = focusedWindow /\ ~focusLog'.reasserted)]_vars

\* The header was hidden after the event armed the recovery and before it acts
Recovery_PendingOnHiddenHeader ==
    focusRestoreTimer.pending /\ ~visible[windowPool["header"]] /\ headerIsOriginal

\* What the code does for a destroyed header: the listeners test
\* header.isVisible() && !header.isDestroyed(), in this order, on the header
\* createWindows() made; after the header was recreated that call throws.
Recovery_ThrewOnDestroyedHeader ==
    focusLog.threw /\ ~headerIsOriginal /\ focusChecks = {}

\* The listeners throw only when the original header is gone
Recovery_ThrowsOnlyWhenRecreated == focusLog.threw => ~headerIsOriginal

-----------------------------------------------------------------------------
(***************************************************************************)
(* SpecClosure: the listeners of createWindows() while crash recovery      *)
(* recreates the header.  recreateWindow('header') closes the header of    *)
(* createWindows() and registers a new one; the listeners keep the first.  *)
(***************************************************************************)
InitClosure == InitFocus /\ createdHeader = 1

NextClosure ==
    \/ \E n \in {"header"} : RenderProcessGone(n)
    \/ \E n \in {"header"} : ResumeHandleRendererCrash(n)
    \/ \E t \in BagToSet(recoveryTimers), syncClose \in BOOLEAN, ctorThrows \in BOOLEAN :
          attemptWindowRecovery(t, syncClose, ctorThrows)
    \/ \E h \in Handles : WindowClosed(h)
    \/ \E to \in {NoHandle, 1} : FocusMoves(to)
    \/ \E kind \in {"resume", "activate"} : SystemEvent(kind)
    \/ DisplayMetricsChanged
    \/ \E c \in [kind : FocusEvents, off : {FALSE}] : FocusCheckFires(c)
    \/ FocusRestoreTimerFires

SpecClosure == InitClosure /\ [][NextClosure]_vars

(***************************************************************************)
(* Claims about handles kept across events (SpecClosure)                   *)
(***************************************************************************)
\* The header was recreated by crash recovery: the pool names a header that is not
\* the one createWindows() made
headerRecreated == poolLive("header") /\ closedHandler[windowPool["header"]]

\* C32: no component keeps a window handle across events: after crash recovery has
\* recreated the header, every focus and display event handler operates on the
\* header registered in the pool, never on the destroyed or replaced one.
C32_HandlersUsePoolHeader == ~focusLog.threw /\ ~focusLog.stale

\* What the code does: the listeners of createWindows() operate on the header made
\* there and on no other, also after the pool names a new one.
Closure_OnlyCreatedHeaderServed ==
    [][(focusedWindow' # focusedWindow /\ RestoreTimerFiresNow)
          => (focusedWindow' = createdHeader /\ ~closedHandler[focusedWindow'])]_vars

\* A handler called a method of the destroyed first header after the recreation
Closure_DestroyedHeaderUsed ==
    headerRecreated /\ createdHeader = NoHandle /\ focusLog.threw

\* A handler operated on the first header, closing and no longer in the pool, while
\* the pool named the recreated header
Closure_ReplacedHeaderUsed ==
    headerRecreated /\ createdHeader # NoHandle /\ focusLog.stale

-----------------------------------------------------------------------------
(***************************************************************************)
(* SpecFollow: the feature windows following the header.  The header is    *)
(* dragged ('moved') or stepped (window:moveStep) while ask and listen are *)
(* shown, hidden and resized.                                              *)
(***************************************************************************)
\* Places the user drags the header to
DragBounds == { [x |-> 784, y |-> 21, width |-> 353, height |-> 47],
                [x |-> 700, y |-> 21, width |-> 353, height |-> 47] }

\* The window:moveStep handler
moveStep(direction) ==
    /\ motionRequests < MaxMotionRequests
    /\ motionRequests' = motionRequests + 1
    /\ IF ~poolLive("header")
         THEN UNCHANGED boundsTask
         ELSE LET header == windowPool["header"]
                  newHeaderPosition == calculateStepMovePosition(header, direction)
                  futureHeaderBounds == [bounds[header] EXCEPT !.x = newHeaderPosition.x,
                                                               !.y = newHeaderPosition.y]
                  visibleWindows == {n \in LayoutNames : poolLive(n) /\ visible[windowPool[n]]}
                  newChildLayout == calculateFeatureWindowLayout(visibleWindows, futureHeaderBounds)
              IN  boundsTask' = animateLayout(
                      animateWindowPosition(boundsTask, header, newHeaderPosition, "none"),
                      newChildLayout, newChildLayout.placed)
    /\ callbackLog' = logIssue({}, {})
    /\ UNCHANGED <<visible, resizable, fadeTask, lastRequest, layoutVars,
                   poolVars, crashVars, askVars, restExt>>

NextFollow ==
    \/ \E name \in LayoutNames, shouldBeVisible \in BOOLEAN :
          handleWindowVisibilityRequest(name, shouldBeVisible)
    \/ \E name \in {"ask"}, targetHeight \in HeightSet : adjustWindowHeight(name, targetHeight)
    \/ \E direction \in StepDirections : moveStep(direction)
    \/ \E headerBounds \in DragBounds : HeaderMoved(headerBounds)
    \/ \E h \in Handles : FadeComplete(h)
    \/ \E h \in Handles : BoundsComplete(h)

SpecFollow == InitMotion /\ [][NextFollow]_vars

(***************************************************************************)
(* Claims about the feature windows following the header (SpecFollow)      *)
(***************************************************************************)
\* Every visible feature window is where the layout computed from the header's live
\* bounds puts it
LayoutMatches ==
    LET shown == {n \in LayoutNames : poolLive(n) /\ visible[windowPool[n]]}
        layout == calculateFeatureWindowLayout(shown, NoBounds)
    IN  \A n \in shown : n \in layout.placed /\ bounds[windowPool[n]] = layout.at[n]

\* C33: once no animation is in flight, the bounds of every visible feature window
\* equal the layout computed from the header's live bounds, for every interleaving
\* of header moves, show/hide requests and height adjustments, a header move during
\* a child animation included.
C33_ChildrenFollowHeader == (poolLive("header") /\ ~isAnimating) => LayoutMatches

\* What the code does: a 'moved' event that arrives while nothing animates puts the
\* children where the layout has them.
Follow_QuietMoveFollowed ==
    [][(bounds'[windowPool["header"]] # bounds[windowPool["header"]]
          /\ ~isAnimating /\ ~isAnimating') => LayoutMatches']_vars

\* The header was dragged while ask was moving into place; all has settled and ask
\* is where the layout for the header's old place had it
Follow_ChildLeftBehind ==
    /\ ~isAnimating /\ poolLive("ask") /\ visible[windowPool["ask"]]
    /\ ~LayoutMatches
    /\ motionRequests = 1
    /\ bounds[windowPool["header"]].x = 700

(***************************************************************************)
(* Claims about the feature windows and the header state (SpecPool)        *)
(***************************************************************************)
\* C34: whenever the header state is not 'main' the pool contains no feature window,
\* for every interleaving of handleHeaderStateChanged calls with pending recovery
\* timers.
C34_NoFeatureOutsideMain ==
    currentHeaderState # "main" => \A n \in FeatureWindows : windowPool[n] = NoHandle

\* What the code does: outside 'main' the pool holds no feature window made by
\* createFeatureWindows; one that crash recovery recreated can be there.
Pool_OnlyRecreatedOutsideMain ==
    currentHeaderState # "main" =>
        \A n \in FeatureWindows : windowPool[n] # NoHandle => closedHandler[windowPool[n]]

\* A recovery timer that was pending when the header left 'main' has recreated ask
Pool_FeatureRecreatedOutsideMain ==
    /\ currentHeaderState = "apikey" /\ poolLive("ask")
    /\ closedHandler[windowPool["ask"]] /\ recoveryAttempts["ask"] = 0

-----------------------------------------------------------------------------
(***************************************************************************)
(* SpecQuit: crash recovery of the ask window while the host process shuts *)
(* down after an uncaught exception.  Timers and suspended handlers run    *)
(* until process.exit.                                                     *)
(***************************************************************************)
\* The header may be unable to close
InitQuit == InitShutdown /\ closeBlocked \subseteq {1}

NextQuit ==
    \/ UncaughtException
    \/ SaveEmergencyStateReturns
    \/ \E ok \in BOOLEAN : StopLearningSessionReturns(ok)
    \/ \E h \in Handles : ClosedEmitted(h)
    \/ CloseAllWindowsReturns
    \/ ExitTimerFires
    \/ \E n \in {"ask"} : RenderProcessGone(n)
    \/ \E n \in {"ask"} : shutdownPc # "exited" /\ ResumeHandleRendererCrash(n)
    \/ \E t \in BagToSet(recoveryTimers), syncClose \in BOOLEAN, ctorThrows \in BOOLEAN :
          shutdownPc # "exited" /\ attemptWindowRecovery(t, syncClose, ctorThrows)

SpecQuit == InitQuit /\ [][NextQuit]_vars

(***************************************************************************)
(* Claims about recovery during the shutdown (SpecQuit)                    *)
(***************************************************************************)
\* In this step a recovery timer fires: attemptWindowRecovery calls recreateWindow
RecoveryAttemptNow ==
    \E t \in BagToSet(recoveryTimers) : CopiesIn(t, recoveryTimers') < CopiesIn(t, recoveryTimers)

\* C35: once the graceful shutdown has started no window is recreated: neither a new
\* crash signal nor a recovery timer scheduled before the shutdown leads to a
\* recreateWindow call.
C35_NoRecreationWhileShuttingDown ==
    [][isShuttingDown => ~RecoveryAttemptNow]_vars

\* What the code does: only handleRendererCrash tests isShuttingDown, at its entry;
\* a crash signal that arrives during the shutdown is dropped there.
Quit_NoCrashHandledWhileShuttingDown ==
    [][isShuttingDown => crashSignals' = crashSignals]_vars

\* closeAllWindows() has called close() on every window of the pool and awaits
\* their 'closed' events: the ask window in the pool, on which close() was not
\* called, was recreated during the shutdown
Quit_RecreatedWhileClosing ==
    /\ shutdownPc = "closeAllWindows" /\ isShuttingDown
    /\ windowPool["ask"] # NoHandle /\ winState[windowPool["ask"]] = "live"

(***************************************************************************)
(* Claims about the click-through of the shortcut editor (SpecControl)     *)
(***************************************************************************)
\* The shortcut-settings window is on screen
shortcutSettingsShown ==
    poolLive("shortcut-settings") /\ visible[windowPool["shortcut-settings"]]

\* C36: whenever the shortcut-settings window is not visible (hidden, destroyed by a
\* header state change, or lost), no pool window is left ignoring mouse events.
C36_ClickThroughUndone ==
    ~shortcutSettingsShown => \A h \in PoolHandles : ~ignoreMouse[h]

\* What the code does: the click-through is undone by the hide request for
\* shortcut-settings and by nothing else; while the window shown is still in the
\* pool, hidden by such a request, no pool window ignores mouse events.
Control_UndoneByHideRequest ==
    (poolLive("shortcut-settings") /\ ~visible[windowPool["shortcut-settings"]])
        => \A h \in PoolHandles : ~ignoreMouse[h]

\* The header left 'main' while the shortcut editor was open: the editor is gone and
\* the header still ignores mouse events
Control_HeaderLeftClickThrough ==
    /\ windowPool["shortcut-settings"] = NoHandle /\ currentHeaderState = "apikey"
    /\ poolLive("header") /\ ignoreMouse[windowPool["header"]]

-----------------------------------------------------------------------------
(***************************************************************************)
(* SpecToggle: all windows hidden and shown again                          *)
(* (window:requestToggleAllWindowsVisibility) while the shortcut editor    *)
(* and ask are shown and hidden, the header's hide animation ends and the  *)
(* header leaves 'main'.                                                   *)
(***************************************************************************)
\* The window:headerAnimationFinished handler
headerAnimationFinished(state) ==
    LET header == windowPool["header"] IN
    /\ IF ~poolLive("header")
         THEN UNCHANGED <<visible, bounds, toggleLog>>
         ELSE IF state = "hidden"
           THEN /\ visible' = [visible EXCEPT ![header] = FALSE]
                /\ toggleLog' = [toggleLog EXCEPT
                      !.phase = IF visible[header] THEN "none" ELSE @]
                /\ UNCHANGED bounds
           ELSE /\ bounds' = snapChildren(NoBounds)
                /\ UNCHANGED <<visible, toggleLog>>
    /\ UNCHANGED <<lastVisibleWindows, focusVars, resizable, fadeTask, boundsTask, lastRequest,
                   motionRequests, layoutRequest, layoutResult, poolVars, crashVars, askVars,
                   displayVars, controlVars, shutdownVars, stateVars, engineVars,
                   mindVars, videoVars>>

NextToggle ==
    \/ \E targetVisibility \in TargetVisibilities : changeAllWindowsVisibility(targetVisibility)
    \/ \E state \in {"hidden", "visible"} : headerAnimationFinished(state)
    \/ \E shouldBeVisible \in BOOLEAN : shortcutSettingsVisibilityRequest(shouldBeVisible)
    \/ \E name \in {"ask"}, shouldBeVisible \in BOOLEAN :
          handleWindowVisibilityRequest(name, shouldBeVisible)
    \/ \E h \in Handles : FadeComplete(h)
    \/ \E h \in Handles : BoundsComplete(h)
    \/ \E state \in {"apikey"} : handleHeaderStateChanged(state)

SpecToggle == InitControl /\ [][NextToggle]_vars

(***************************************************************************)
(* Claims about hiding and showing all windows (SpecToggle)                *)
(***************************************************************************)
\* In this step a request was handled
ToggleRequestNow == toggleLog'.tick # toggleLog.tick

\* C37: hiding all windows and showing them again restores exactly the windows that
\* were visible when the hide happened, among those still alive, and always makes
\* the header visible again; a request whose boolean targetVisibility equals the
\* header's visibility changes nothing.
C37_ToggleRestores ==
    [][/\ (ToggleRequestNow /\ poolLive("header") /\ visible[windowPool["header"]]
             /\ toggleLog'.request # "true")
              => /\ VisibleNames' = {}
                 /\ toggleLog'.phase = "hidden" /\ toggleLog'.atHide = VisibleNames
       /\ (ToggleRequestNow /\ toggleLog.phase = "hidden" /\ toggleLog'.phase = "shown")
              => /\ VisibleNames' = VisibleNames \cup {n \in toggleLog.atHide : poolLive(n)}
                 /\ visible'[windowPool["header"]]
       /\ (ToggleRequestNow /\ poolLive("header")
             /\ toggleLog'.request = (IF visible[windowPool["header"]] THEN "true" ELSE "false"))
              => UNCHANGED <<visible, lastVisibleWindows>>]_vars

\* All windows were hidden while the header, ask and the shortcut editor were on
\* screen, and shown again: the three are back
C37_Witness ==
    /\ toggleLog.phase = "shown" /\ toggleLog.request = "undefined"
    /\ toggleLog.atHide = {"header", "ask", "shortcut-settings"}
    /\ VisibleNames = {"header", "ask", "shortcut-settings"}

\* The feature windows were destroyed between the hide and the show: the header
\* alone is back
Toggle_ShownAfterDeaths ==
    /\ toggleLog.phase = "shown" /\ "ask" \in toggleLog.atHide
    /\ windowPool["ask"] = NoHandle /\ VisibleNames = {"header"}

\* The header is among the windows remembered at every hide
Toggle_HeaderRemembered == "header" \in lastVisibleWindows

-----------------------------------------------------------------------------
(***************************************************************************)
(* SpecMind: the node ids of the mind-map graph under addNode, clearData   *)
(* and the crash-recovery round trip importData(exportData()).             *)
(* nodes is the Map of the service as a set of [key, id] records, the id   *)
(* `node_<n>` written as n.                                                *)
(***************************************************************************)
\* Lower-cased concept texts
NodeKeys == {"alpha", "beta", "gamma"}

\* Bound on nodeIdCounter
MaxNodeId == 4

\* -Infinity, the value of Math.max() without arguments, and of -Infinity + 1
NegInfinity == -1

nodeKeys == {n.key : n \in nodes}
nodeIds == {n.id : n \in nodes}

\* this.nodeIdCounter++ : -Infinity stays -Infinity
increment(counter) == IF counter = NegInfinity THEN NegInfinity ELSE counter + 1

\* parseInt(n.id.replace('node_', '')) || 0 : 'node_-Infinity' parses to NaN
parseNodeId(id) == IF id = NegInfinity THEN 0 ELSE id

\* Math.max(...values) : -Infinity for no value
MathMax(values) ==
    IF values = {} THEN NegInfinity ELSE CHOOSE v \in values : \A w \in values : w <= v

\* cleanupOldNodes: the nodes that are old and rarely mentioned are those of old
cleanupOldNodes(graph, old) == {n \in graph : n.key \notin old}

\* addNode for a text with one concept: createOrUpdateNode, then cleanupOldNodes
addNode(concept, old) ==
    /\ nodeIdCounter < MaxNodeId
    /\ IF concept \in nodeKeys
         THEN /\ nodes' = cleanupOldNodes(nodes, old)
              /\ UNCHANGED <<nodeIdCounter, mindLog>>
         ELSE /\ nodes' = cleanupOldNodes(nodes \cup {[key |-> concept, id |-> nodeIdCounter]}, old)
              /\ nodeIdCounter' = increment(nodeIdCounter)
              /\ mindLog' = [mindLog EXCEPT !.clash = @ \/ nodeIdCounter \in nodeIds]
    /\ UNCHANGED <<poolVars, crashVars, layoutVars, motionVars, askVars, displayVars, controlVars,
                   focusVars, shutdownVars, stateVars, engineVars, toggleVars, videoVars>>

clearData ==
    /\ nodes' = {}
    /\ nodeIdCounter' = 0
    /\ UNCHANGED <<mindLog, poolVars, crashVars, layoutVars, motionVars, askVars, displayVars,
                   controlVars, focusVars, shutdownVars, stateVars, engineVars, toggleVars,
                   videoVars>>

\* exportData always carries nodes, edges and metadata
exportData == [nodes |-> nodes, metadata |-> TRUE]

\* importData(data): clearData, the nodes of data under their keys, then the counter
\* from the largest id
importData(data) ==
    /\ nodes' = data.nodes
    /\ nodeIdCounter' = IF data.metadata
                          THEN increment(MathMax({parseNodeId(n.id) : n \in data.nodes}))
                          ELSE 0
    /\ mindLog' = [mindLog EXCEPT !.emptyImport = @ \/ data.nodes = {}]
    /\ UNCHANGED <<poolVars, crashVars, layoutVars, motionVars, askVars, displayVars, controlVars,
                   focusVars, shutdownVars, stateVars, engineVars, toggleVars, videoVars>>

\* saveEmergencyState followed by restoreEnhancedServicesState
restoreEnhancedServicesState == importData(exportData)

NextMind ==
    \/ \E concept \in NodeKeys, old \in SUBSET NodeKeys : addNode(concept, old)
    \/ clearData
    \/ restoreEnhancedServicesState

SpecMind == InitState /\ [][NextMind]_vars

(***************************************************************************)
(* Claims about the mind-map node ids (SpecMind)                           *)
(***************************************************************************)
\* C38: no two distinct nodes of the graph share an id, and every newly created node
\* got an id different from all existing ones.
C38_NodeIdsUnique ==
    /\ \A n, m \in nodes : n.id = m.id => n = m
    /\ ~mindLog.clash

\* What holds: ids are unique as long as no graph without nodes was imported
Mind_UniqueUntilEmptyImport ==
    ~mindLog.emptyImport =>
        /\ \A n, m \in nodes : n.id = m.id => n = m
        /\ ~mindLog.clash
        /\ \A n \in nodes : n.id < nodeIdCounter

\* Reached: two nodes with the id node_-Infinity
Mind_DuplicateIds ==
    \E n, m \in nodes : n # m /\ n.id = m.id /\ n.id = NegInfinity

-----------------------------------------------------------------------------
(***************************************************************************)
(* SpecVideo: startLearningSession and stopLearningSession calls of the    *)
(* video learning service, interleaving at their awaits, over the screen   *)
(* capture service.  currentSession is 0 for null and the number of the    *)
(* call that made it otherwise; captureIntervals counts the setInterval    *)
(* timers that were started and not cleared.                               *)
(***************************************************************************)
VideoCalls == 1..MaxVideoCalls

\* The calls that are suspended at an await
videoInProgress ==
    {k \in VideoCalls : videoCalls[k] \in {"getAvailableSources", "setupMediaStream", "stopping"}}

videoRest == <<poolVars, crashVars, layoutVars, motionVars, askVars, displayVars, controlVars,
               focusVars, stateVars, engineVars, toggleVars, mindVars,
               shutdownPc, closePromises, closeBlocked, crashReports, shutdownLog>>

\* startLearningSession up to the first await of startCapture
startLearningSession(k) ==
    /\ videoCalls[k] = "idle"
    /\ IF isRecording
         THEN /\ videoCalls' = [videoCalls EXCEPT ![k] = "threw"]
              /\ UNCHANGED currentSession
         ELSE /\ currentSession' = k
              /\ videoCalls' = [videoCalls EXCEPT ![k] =
                    IF isCapturing THEN "threw" ELSE "getAvailableSources"]
    /\ UNCHANGED <<isRecording, isCapturing, captureIntervals, videoRest>>

\* startCapture: await this.getAvailableSources() returns or throws
GetAvailableSourcesReturns(k, ok) ==
    /\ videoCalls[k] = "getAvailableSources"
    /\ videoCalls' = [videoCalls EXCEPT ![k] = IF ok THEN "setupMediaStream" ELSE "threw"]
    /\ UNCHANGED <<currentSession, isRecording, isCapturing, captureIntervals, videoRest>>

\* startCapture: await this.setupMediaStream() returns or throws; on return the
\* interval is started, isCapturing set, and startLearningSession sets isRecording
SetupMediaStreamReturns(k, ok) ==
    /\ videoCalls[k] = "setupMediaStream"
    /\ IF ok
         THEN /\ captureIntervals' = captureIntervals + 1
              /\ isCapturing' = TRUE
              /\ isRecording' = TRUE
              /\ videoCalls' = [videoCalls EXCEPT ![k] = "returned"]
         ELSE /\ videoCalls' = [videoCalls EXCEPT ![k] = "threw"]
              /\ UNCHANGED <<captureIntervals, isCapturing, isRecording>>
    /\ UNCHANGED <<currentSession, videoRest>>

\* stopLearningSession up to its first await: stopCapture clears this.captureInterval
stopLearningSession(k) ==
    /\ videoCalls[k] = "idle"
    /\ IF ~isRecording \/ currentSession = 0
         THEN /\ videoCalls' = [videoCalls EXCEPT ![k] = "threw"]
              /\ UNCHANGED <<isCapturing, captureIntervals>>
         ELSE /\ videoCalls' = [videoCalls EXCEPT ![k] = "stopping"]
              /\ IF isCapturing
                   THEN /\ captureIntervals' = captureIntervals - 1
                        /\ isCapturing' = FALSE
                   ELSE UNCHANGED <<isCapturing, captureIntervals>>
    /\ UNCHANGED <<currentSession, isRecording, videoRest>>

\* stopLearningSession after processRemainingFrames and generateSessionSummary
StopLearningSessionResumes(k, ok) ==
    /\ videoCalls[k] = "stopping"
    /\ IF ok
         THEN /\ isRecording' = FALSE
              /\ currentSession' = 0
              /\ videoCalls' = [videoCalls EXCEPT ![k] = "returned"]
         ELSE /\ videoCalls' = [videoCalls EXCEPT ![k] = "threw"]
              /\ UNCHANGED <<isRecording, currentSession>>
    /\ UNCHANGED <<isCapturing, captureIntervals, videoRest>>

NextVideo ==
    \/ \E k \in VideoCalls : startLearningSession(k)
    \/ \E k \in VideoCalls, ok \in BOOLEAN : GetAvailableSourcesReturns(k, ok)
    \/ \E k \in VideoCalls, ok \in BOOLEAN : SetupMediaStreamReturns(k, ok)
    \/ \E k \in VideoCalls : stopLearningSession(k)
    \/ \E k \in VideoCalls, ok \in BOOLEAN : StopLearningSessionResumes(k, ok)

SpecVideo == InitState /\ [][NextVideo]_vars

(***************************************************************************)
(* Claims about the video learning session (SpecVideo)                     *)
(***************************************************************************)
\* C39: whenever no start or stop call is in progress, currentSession is non-null if
\* and only if isRecording is true (a failed start leaves no session behind), and
\* overlapping starts never produce two active captures.
C39_SessionIffRecording ==
    /\ videoInProgress = {} => ((currentSession # 0) <=> isRecording)
    /\ captureIntervals <= 1

\* What holds: a session and a running capture exist only after a start passed its
\* guard, and a capture that is flagged has a running interval
Video_OnlyStartsMakeSessions ==
    /\ currentSession # 0 => videoCalls[currentSession] # "idle"
    /\ isCapturing => captureIntervals >= 1
    /\ captureIntervals <= Cardinality({k \in VideoCalls : videoCalls[k] = "returned"})

\* Reached: the only call was a start that failed, and its session is still current
Video_SessionLeftBehind ==
    /\ videoInProgress = {} /\ currentSession # 0 /\ ~isRecording
    /\ \A k \in VideoCalls : videoCalls[k] = (IF k = currentSession THEN "threw" ELSE "idle")

\* Reached: two overlapping starts, both returned, two capture intervals running
Video_TwoCaptures ==
    /\ captureIntervals = 2
    /\ \A k \in VideoCalls : videoCalls[k] \in {"idle", "returned"}

-----------------------------------------------------------------------------
(***************************************************************************)
(* Claims about loadState (SpecState)                                      *)
(***************************************************************************)
\* In this step the saveState() made by a load from the backup finished its copyFile
RestoreCopyNow ==
    /\ stateLog.restore # 0
    /\ saveCalls[stateLog.restore] = "copyFile"
    /\ saveCalls'[stateLog.restore] = "writeFile"

\* C40: the rewrite of the primary file that follows a load from the backup does not
\* overwrite the backup with the contents of the unreadable primary file.
C40_RestoreKeepsBackup == [][RestoreCopyNow => backupFile' = backupFile]_vars

\* What holds: the state is taken from the backup only when the primary file cannot
\* be parsed and the backup can, and that load starts a saveState()
State_BackupOnlyWhenPrimaryUnreadable ==
    [][stateLog'.restore \notin {0, stateLog.restore}
          => /\ ~stateFile.complete /\ backupFile.complete
             /\ stateLog'.loadedFrom = "backup"
             /\ saveCalls'[stateLog'.restore] = "copyFile"]_vars

\* Reached: the state came from the backup, the restoring save has copied the cut-short
\* primary file over it and its write failed: neither file can be parsed
State_BackupLostByRestore ==
    /\ stateLog.loadedFrom = "backup" /\ stateLog.restore # 0
    /\ saveCalls[stateLog.restore] = "done"
    /\ stateFile.exists /\ ~stateFile.complete
    /\ backupFile.exists /\ ~backupFile.complete

\* Reached: a start with neither file readable took the default state
State_DefaultLoaded ==
    /\ stateLog.loadedFrom = "default" /\ stateFile.exists /\ backupFile.exists


=============================================================================
